---- MODULE Spec2Model ----
(***************************************************************************)
(* Model of the reconciliation core of terraform-provider-dockerclient:    *)
(* the connection resolver (provider.go), the container reconciler         *)
(* (resource_container.go) with its process-wide creationTime marker, and  *)
(* the image, network and volume reconcilers.                              *)
(*                                                                         *)
(* Strings and the contents of byte slices are TLA+ strings; "" is the    *)
(* empty value.  A nil error is "".  A nil *ProviderConfig is the record   *)
(* ZeroConfig together with a non-empty err.  time.Time values are         *)
(* naturals, 0 is the zero time (IsZero).                                  *)
(*                                                                         *)
(* The resolver runs on a memory of ProviderConfig objects and byte        *)
(* arrays: a *ProviderConfig is the address of an object, a []byte field   *)
(* of an object is the address of its backing array (0 when it has no      *)
(* bytes), and every assignment of GetResolvedConfig is a store to the     *)
(* object it names.                                                        *)
(*                                                                         *)
(* A schema.ResourceData is a record of the fields its schema declares.    *)
(* d.Get of a key the schema does not declare returns nil, and the type    *)
(* assertion the code applies to it panics: the call does not return and   *)
(* the provider process ends.  A panic is the error or result "panic".     *)
(***************************************************************************)
EXTENDS Integers, Sequences, FiniteSets, TLC

VARIABLES
    providerConfig,  \* the base *ProviderConfig the handlers receive as meta, by value
    heap,            \* the memory that holds it and the *ProviderConfig last returned
    rdata,           \* connection fields of the ResourceData handed to GetResolvedConfig
    resolved,        \* outcome of the last GetResolvedConfig call: [r, deferred, err]
    clientKind,      \* connection opened by the last NewClient call on resolved.r
    creationTime,    \* package-level var creationTime time.Time (0 = zero time)
    now,             \* the wall clock read by time.Now() and by the daemon
    d,               \* per container resource: the schema.ResourceData fields used
    docker,          \* per container resource: the daemon's view of its container
    op,              \* per container resource: the operation in flight, or the last one
    image,           \* the ResourceData of the image resource
    network,         \* the ResourceData of the network resource
    volume,          \* the ResourceData of the volume resource
    daemon,          \* the daemon's images, network and volume
    last             \* the last operation on the image, network or volume resource

resolverVars == <<providerConfig, heap, rdata, resolved, clientKind>>
containerVars == <<creationTime, now, d, docker, op>>
kindVars == <<image, network, volume, daemon, last>>
vars == <<providerConfig, heap, rdata, resolved, clientKind, creationTime, now, d,
          docker, op, image, network, volume, daemon, last>>

(***************************************************************************)
(* File system seen by os.Stat / ioutil.ReadFile.  A path outside the      *)
(* domain does not exist (ENOENT); kind "denied" makes stat fail with      *)
(* EACCES; a directory stats fine but cannot be read as a file.            *)
(***************************************************************************)
Dir == [kind |-> "dir", content |-> ""]
File(bytes) == [kind |-> "file", content |-> bytes]

FS ==
    ( "/certs"               :> Dir
   @@ "/certs/ca.pem"        :> File("CA")
   @@ "/certs/cert.pem"      :> File("CERT")
   @@ "/certs/key.pem"       :> File("KEY")
   @@ "/part"                :> Dir
   @@ "/part/ca.pem"         :> File("CA")
   @@ "/blank"               :> Dir
   @@ "/blank/ca.pem"        :> File("")
   @@ "/blank/cert.pem"      :> File("")
   @@ "/blank/key.pem"       :> File("")
   @@ "/locked"              :> [kind |-> "denied", content |-> ""]
   @@ "/junk"                :> Dir
   @@ "/junk/ca.pem"         :> File("CA")
   @@ "/junk/cert.pem"       :> File("CERT")
   @@ "/junk/key.pem"        :> File("JUNK")
   @@ "machines/m1"          :> Dir
   @@ "machines/m1/ca.pem"   :> File("CA")
   @@ "machines/m1/cert.pem" :> File("CERT")
   @@ "machines/m1/key.pem"  :> File("KEY")
   @@ "/f/ca"                :> File("CA")
   @@ "/f/cert"              :> File("CERT")
   @@ "/f/key"               :> File("KEY")
   @@ "/f/empty"             :> File("")
   @@ "/img/app.tar"         :> File("TAR") )

\* os.Stat(path): "ok", "ENOENT" (os.IsNotExist) or "EACCES" (any other error).
Stat(path) ==
    IF path \notin DOMAIN FS THEN "ENOENT"
    ELSE IF FS[path].kind = "denied" THEN "EACCES"
    ELSE "ok"

\* ioutil.ReadFile(path) after a successful stat: [bytes, err].
ReadFile(path) ==
    IF path \in DOMAIN FS /\ FS[path].kind = "file"
    THEN [bytes |-> FS[path].content, err |-> FALSE]
    ELSE [bytes |-> "", err |-> TRUE]

\* filepath.Join of two elements: empty elements are ignored.
Join(a, b) ==
    IF a = "" THEN b
    ELSE IF b = "" THEN a
    ELSE a \o "/" \o b

ZeroConfig ==
    [HostURI |-> "", HostName |-> "",
     CaMaterial |-> "", CertMaterial |-> "", KeyMaterial |-> "",
     CaFile |-> "", CertFile |-> "", KeyFile |-> "",
     CertPath |-> "", StoragePath |-> "", Ping |-> FALSE]

\* Keys of the provider schema.
ProviderSchema ==
    {"default_host", "ca_material", "ca_file", "cert_material", "cert_file",
     "key_material", "key_file", "cert_path", "storage_path", "ping"}

\* providerConfigure(d) on a provider block (a record over ProviderSchema):
\* the second field is read with d.Get("default_hostname"), a key the
\* schema does not declare, so the call panics whatever the block holds.
providerConfigure(block) ==
    IF "default_hostname" \notin ProviderSchema
    THEN [panic |-> TRUE, config |-> ZeroConfig]
    ELSE [panic |-> FALSE,
          config |-> [HostURI |-> block.default_host,
                      HostName |-> block.default_hostname,
                      CaMaterial |-> block.ca_material,
                      CertMaterial |-> block.cert_material,
                      KeyMaterial |-> block.key_material,
                      CaFile |-> block.ca_file, CertFile |-> block.cert_file,
                      KeyFile |-> block.key_file,
                      CertPath |-> block.cert_path,
                      StoragePath |-> block.storage_path,
                      Ping |-> block.ping]]

\* The conventional certificate directory chosen by the switch of
\* GetResolvedConfig; hostName is the merged r.HostName.
CertDir(c, hostName) ==
    IF c.CertPath # "" THEN c.CertPath
    ELSE IF c.StoragePath # "" THEN Join(Join(c.CertPath, "machines"), hostName)
    ELSE ""

\* Does GetResolvedConfig look at the conventional directory at all?
NeedsCertDir(c) ==
    \/ (c.CaMaterial = "" /\ c.CaFile = "")
    \/ (c.CertMaterial = "" /\ c.CertFile = "")
    \/ (c.KeyMaterial = "" /\ c.KeyFile = "")

\* One of the three material blocks: inline bytes, else the explicit file,
\* else <certPath>/<pem>; a file that cannot be stat'ed or read is an error.
ResolveMaterial(inline, file, certPath, pem) ==
    IF inline # "" THEN [bytes |-> inline, err |-> FALSE]
    ELSE LET path == IF file # "" THEN file
                     ELSE IF certPath # "" THEN Join(certPath, pem)
                     ELSE ""
         IN  IF path = "" THEN [bytes |-> "", err |-> FALSE]
             ELSE IF Stat(path) = "ok" THEN ReadFile(path)
             ELSE [bytes |-> "", err |-> TRUE]

\* The closing all-or-nothing test of GetResolvedConfig.  It reads the
\* materials of the receiver c, not those just resolved into r.
TLSCheck(c, r) ==
    IF c.CaMaterial # "" \/ c.CertMaterial # "" \/ c.KeyMaterial # ""
    THEN IF c.CaMaterial = "" THEN "missing CA certificate"
         ELSE IF c.CertMaterial = "" THEN "missing client certificate"
         ELSE IF c.KeyMaterial = "" THEN "missing key certificate"
         ELSE ""
    ELSE ""

ResolveFail(deferred, err) == [r |-> ZeroConfig, deferred |-> deferred, err |-> err]

\* d.Get(key).(string) on a key the resource's schema does not declare.
Panic == ResolveFail(FALSE, "panic")

\* Does the schema of the resource data rd declare the key?
Declares(rd, key) == key \in DOMAIN rd

\* The materials as they stand when the closing test is reached (the three
\* blocks in order), or the error that stopped resolution before it.
ResolvedMaterials(c, rd) ==
    LET hostURI  == IF rd.host # "" THEN rd.host ELSE c.HostURI
        hostName == IF rd.hostname # "" THEN rd.hostname ELSE c.HostName
        certPath == IF NeedsCertDir(c) THEN CertDir(c, hostName) ELSE ""
        ca   == ResolveMaterial(c.CaMaterial, c.CaFile, certPath, "ca.pem")
        cert == ResolveMaterial(c.CertMaterial, c.CertFile, certPath, "cert.pem")
        key  == ResolveMaterial(c.KeyMaterial, c.KeyFile, certPath, "key.pem")
        r    == [ZeroConfig EXCEPT !.Ping = c.Ping,
                                   !.HostURI = hostURI, !.HostName = hostName,
                                   !.CaMaterial = ca.bytes,
                                   !.CertMaterial = cert.bytes,
                                   !.KeyMaterial = key.bytes]
    IN  IF ~Declares(rd, "host") THEN Panic
        ELSE IF hostURI = "" THEN ResolveFail(TRUE, "host is not set")
        ELSE IF ~Declares(rd, "hostname") THEN Panic
        ELSE IF hostName = "" THEN ResolveFail(TRUE, "hostname is not set")
        ELSE IF NeedsCertDir(c) /\ Stat(certPath) = "ENOENT"
             THEN ResolveFail(TRUE, "error trying to stat cert_path")
        ELSE IF NeedsCertDir(c) /\ Stat(certPath) # "ok"
             THEN ResolveFail(FALSE, "error trying to stat cert_path")
        ELSE IF ca.err THEN ResolveFail(FALSE, "error reading ca file")
        ELSE IF cert.err THEN ResolveFail(FALSE, "error reading cert file")
        ELSE IF key.err THEN ResolveFail(FALSE, "error reading key file")
        ELSE [r |-> r, deferred |-> FALSE, err |-> ""]

\* The end of GetResolvedConfig: m is what the material blocks left, and
\* the closing test decides between its error and the result.
TLSChecked(c, m) ==
    IF m.err # "" THEN m
    ELSE IF TLSCheck(c, m.r) # "" THEN ResolveFail(FALSE, TLSCheck(c, m.r))
    ELSE m

\* func (c *ProviderConfig) GetResolvedConfig(d) (*ProviderConfig, bool, error)
GetResolvedConfig(c, rd) == TLSChecked(c, ResolvedMaterials(c, rd))

(***************************************************************************)
(* GetResolvedConfig on the memory mem = [obj, arr, r]: obj maps the       *)
(* address of each live ProviderConfig to its fields, arr maps the address *)
(* of each live byte array to its bytes, and r is the address of the       *)
(* *ProviderConfig last returned (0 for nil).  The call is carried through *)
(* its blocks by a record s = [mem, r, certPath, deferred, err]: s.r is    *)
(* the local r, s.certPath the local certPath, and a non-empty s.err is    *)
(* the error of a return statement already taken.  The operators above    *)
(* give what a call returns as a function of the value of its receiver;    *)
(* these give what it does to the memory it runs in.                       *)
(***************************************************************************)
BaseAddr == 1

\* The address the allocator hands out: the lowest one not in use.
FreshAddr(used) ==
    CHOOSE a \in 1..(Cardinality(used) + 1) :
        a \notin used /\ \A b \in 1..(a - 1) : b \in used

\* The object at address a by value: each []byte field by its bytes.
Value(mem, a) ==
    [mem.obj[a] EXCEPT
        !.CaMaterial   = IF @ = 0 THEN "" ELSE mem.arr[@],
        !.CertMaterial = IF @ = 0 THEN "" ELSE mem.arr[@],
        !.KeyMaterial  = IF @ = 0 THEN "" ELSE mem.arr[@]]

\* The memory providerConfigure leaves when it returns &ProviderConfig{...}
\* of value c: each []byte(...) conversion allocates an array of its own.
Memory(c) ==
    [obj |-> (BaseAddr :>
                [c EXCEPT !.CaMaterial   = IF @ = "" THEN 0 ELSE 1,
                          !.CertMaterial = IF @ = "" THEN 0 ELSE 2,
                          !.KeyMaterial  = IF @ = "" THEN 0 ELSE 3]),
     arr |-> [n \in {k \in 1..3 :
                       <<c.CaMaterial, c.CertMaterial, c.KeyMaterial>>[k] # ""}
                |-> <<c.CaMaterial, c.CertMaterial, c.KeyMaterial>>[n]],
     r   |-> 0]

\* return nil, deferred, fmt.Errorf(err)
Fail(s, deferred, err) == [s EXCEPT !.deferred = deferred, !.err = err]

\* r := &ProviderConfig{Ping: c.Ping}; var certPath string
Enter(mem, c) ==
    LET r == FreshAddr(DOMAIN mem.obj)
    IN  [mem |-> [mem EXCEPT !.obj = @ @@
                     (r :> [ZeroConfig EXCEPT !.Ping = mem.obj[c].Ping,
                                              !.CaMaterial = 0,
                                              !.CertMaterial = 0,
                                              !.KeyMaterial = 0])],
         r |-> r, certPath |-> "", deferred |-> FALSE, err |-> ""]

\* The resource's endpoint assigned to the receiver instead of r.
HostURIBlockMut(s, c, rd) ==
    IF ~Declares(rd, "host") THEN Fail(s, FALSE, "panic")
    ELSE IF rd.host # ""
         THEN [s EXCEPT !.mem.obj[c].HostURI = rd.host,
                        !.mem.obj[s.r].HostURI = rd.host]
    ELSE IF s.mem.obj[c].HostURI # ""
         THEN [s EXCEPT !.mem.obj[s.r].HostURI = s.mem.obj[c].HostURI]
    ELSE Fail(s, TRUE, "host is not set")

\* if d.Get("host").(string) != "" { r.HostURI = ... } else if c.HostURI ...
HostURIBlock(s, c, rd) ==
    IF ~Declares(rd, "host") THEN Fail(s, FALSE, "panic")
    ELSE IF rd.host # "" THEN [s EXCEPT !.mem.obj[s.r].HostURI = rd.host]
    ELSE IF s.mem.obj[c].HostURI # ""
         THEN [s EXCEPT !.mem.obj[s.r].HostURI = s.mem.obj[c].HostURI]
    ELSE Fail(s, TRUE, "host is not set")

\* if d.Get("hostname").(string) != "" { r.HostName = ... } else if ...
HostNameBlock(s, c, rd) ==
    IF s.err # "" THEN s
    ELSE IF ~Declares(rd, "hostname") THEN Fail(s, FALSE, "panic")
    ELSE IF rd.hostname # "" THEN [s EXCEPT !.mem.obj[s.r].HostName = rd.hostname]
    ELSE IF s.mem.obj[c].HostName # ""
         THEN [s EXCEPT !.mem.obj[s.r].HostName = s.mem.obj[c].HostName]
    ELSE Fail(s, TRUE, "hostname is not set")

\* The choice of certPath and its os.Stat, when a material has neither
\* inline bytes nor a file.
CertPathBlock(s, c) ==
    IF s.err # "" \/ ~NeedsCertDir(Value(s.mem, c)) THEN s
    ELSE LET certPath == CertDir(Value(s.mem, c), s.mem.obj[s.r].HostName)
         IN  IF Stat(certPath) = "ENOENT"
             THEN Fail(s, TRUE, "error trying to stat cert_path")
             ELSE IF Stat(certPath) # "ok"
             THEN Fail(s, FALSE, "error trying to stat cert_path")
             ELSE [s EXCEPT !.certPath = certPath]

\* One of the three material blocks.  r.X = c.X copies the slice, so r
\* and c share the backing array; ioutil.ReadFile returns a new array.
MaterialBlock(s, c, field, file, pem, err) ==
    IF s.err # "" THEN s
    ELSE LET res == ResolveMaterial(Value(s.mem, c)[field], s.mem.obj[c][file],
                                    s.certPath, pem)
         IN  IF res.err THEN Fail(s, FALSE, err)
             ELSE IF Value(s.mem, c)[field] # ""
             THEN [s EXCEPT !.mem.obj[s.r][field] = s.mem.obj[c][field]]
             ELSE IF res.bytes = "" THEN s
             ELSE [s EXCEPT
                     !.mem.arr = @ @@ (FreshAddr(DOMAIN @) :> res.bytes),
                     !.mem.obj[s.r][field] = FreshAddr(DOMAIN s.mem.arr)]

\* The closing test and return r, false, nil.
ClosingBlock(s, c) ==
    IF s.err # "" THEN s
    ELSE IF TLSCheck(Value(s.mem, c), Value(s.mem, s.r)) # ""
    THEN Fail(s, FALSE, TLSCheck(Value(s.mem, c), Value(s.mem, s.r)))
    ELSE s

\* func (c *ProviderConfig) GetResolvedConfig(d), c an address of mem: the
\* blocks in the order of the body.
GetResolvedConfigAt(mem, c, rd) ==
    ClosingBlock(
      MaterialBlock(
        MaterialBlock(
          MaterialBlock(
            CertPathBlock(
              HostNameBlock(HostURIBlock(Enter(mem, c), c, rd), c, rd), c),
            c, "CaMaterial", "CaFile", "ca.pem", "error reading ca file"),
          c, "CertMaterial", "CertFile", "cert.pem", "error reading cert file"),
        c, "KeyMaterial", "KeyFile", "key.pem", "error reading key file"),
      c)

\* What the caller receives, by value: [r, deferred, err].
Returned(s) ==
    IF s.err # "" THEN ResolveFail(s.deferred, s.err)
    ELSE [r |-> Value(s.mem, s.r), deferred |-> FALSE, err |-> ""]

\* The memory once the call has returned: the base and the object
\* returned stay, with the arrays they hold; the rest is garbage.
Kept(s) ==
    LET live == IF s.err # "" THEN {BaseAddr} ELSE {BaseAddr, s.r}
        held == UNION {{s.mem.obj[a].CaMaterial, s.mem.obj[a].CertMaterial,
                        s.mem.obj[a].KeyMaterial} : a \in live} \ {0}
    IN  [obj |-> [a \in live |-> s.mem.obj[a]],
         arr |-> [n \in held |-> s.mem.arr[n]],
         r   |-> IF s.err # "" THEN 0 ELSE s.r]

\* Endpoints the client library parses, and material it accepts as PEM.
ValidEndpoint(uri) == uri \in {"tcp://base:2376", "tcp://res:2376"}
ValidPEM(bytes) == bytes \in {"CA", "CERT", "KEY"}

\* The error a handler returns when it has no connection: a panic of
\* GetResolvedConfig is not a return.
ResolveError(rc) == IF rc.err = "panic" THEN "panic" ELSE "resolve"

\* func (c *ProviderConfig) NewClient(): the constructor used and the error
\* returned.  pong is whether the daemon answers client.Ping().
NewClient(c, pong) ==
    LET tls == c.CertMaterial # "" /\ c.KeyMaterial # "" /\ c.CaMaterial # ""
        opened == /\ ValidEndpoint(c.HostURI)
                  /\ tls => (ValidPEM(c.CertMaterial) /\ ValidPEM(c.KeyMaterial)
                                /\ ValidPEM(c.CaMaterial))
    IN  IF ~opened THEN [kind |-> "none", err |-> "error opening docker client"]
        ELSE IF c.Ping /\ ~pong
        THEN [kind |-> "none", err |-> "error pinging Docker server"]
        ELSE [kind |-> IF tls THEN "tls" ELSE "plain", err |-> ""]

\* What a handler returns once GetResolvedConfig has answered rc: the
\* error of rc, else the error of NewClient(), else "" (it goes on with a
\* client).
Opened(rc, pong) ==
    [deferred |-> rc.deferred,
     err |-> IF rc.err # "" THEN ResolveError(rc)
             ELSE IF NewClient(rc.r, pong).err # "" THEN "client"
             ELSE ""]

\* The opening of every handler: GetResolvedConfig(d), return its error;
\* NewClient(), return its error.  c is meta.
Connection(c, rd, pong) == Opened(GetResolvedConfig(c, rd), pong)

(***************************************************************************)
(* Container reconciler (resource_container.go).                           *)
(*                                                                         *)
(* Each client call is one step, so that operations on different           *)
(* containers, and the daemon itself, interleave between the calls of one  *)
(* operation.  The host serialises the operations on one resource: a new   *)
(* operation on a container starts only when its op.pc is "idle".          *)
(* The container resources of Containers are modelled in full; the other   *)
(* container resources of the process appear through the one thing they    *)
(* share with these, the package-level creationTime (PeerCreate).          *)
(***************************************************************************)
Containers == {"A"}

\* The opaque ID the daemon assigns in CreateContainer.
ContainerID(n) == "id-" \o n

CreateLoops  == 30   \* loops = 30 once creationTime is set
RefreshLoops == 1    \* loops := 1
MaxClock     == 3    \* time.Now() is read at most MaxClock - 1 times
MaxNets      == 1    \* declared networks per container
MaxUploads   == 1    \* declared upload blocks per container
GraceSeconds == {0, 10}

\* Images the daemon lists; the map fetchLocalImages builds has one key for
\* the 12-character short ID, one for the full ID and one per repo tag.
LocalImages ==
    { [ID |-> "sha256:0a1b2c3d4e5f", RepoTags |-> {"nginx:latest", "nginx:1.13"}],
      [ID |-> "sha256:9f8e7d6c5b4a", RepoTags |-> {"redis:3"}] }

fetchLocalImages ==
    UNION { {SubSeq(img.ID, 1, 12), img.ID} \cup img.RepoTags : img \in LocalImages }

\* Values of the image field: in the process specification a bare name the
\* daemon has and one it does not have; in the lookup specification also
\* a tag, a short ID and a full ID.
ProcessImageRefs == {"nginx", "redis"}
ImageRefs ==
    {"nginx", "nginx:latest", "redis:3", "redis", "sha256:0a1b2", "sha256:9f8e7d6c5b4a"}

\* A lookup that does not retry with the :latest suffix.
ResolveImageMut(ref) == IF ref \in fetchLocalImages THEN ref ELSE ""

\* The image name sent to CreateContainer, "" when Create gives up.
ResolveImage(ref) ==
    IF ref \in fetchLocalImages THEN ref
    ELSE IF (ref \o ":latest") \in fetchLocalImages THEN ref \o ":latest"
    ELSE ""

\* d.Get("host") and d.Get("hostname") of a container resource: the schema
\* declares both, hostname being the host name given to the container.
ContainerConn == [host |-> "", hostname |-> "m1"]

\* d.Get("command"): a list of strings.
Commands == {<<>>, <<"run">>, <<"run", "">>}

\* The test Create applies to each element of the command.
CommandHasEmpty(cmd) == \E k \in 1..Len(cmd) : cmd[k] = ""

\* d.Get("volumes"): a set of volume blocks.
VolumeSets ==
    { {},
      {[from_container |-> "", container_path |-> "/data"],
       [from_container |-> "box", container_path |-> ""]},
      {[from_container |-> "", container_path |-> ""]},
      {[from_container |-> "box", container_path |-> "/data"]} }

\* volumeSetToDockerVolumes(volumes): does it return an error?
volumeSetToDockerVolumes(vols) ==
    \E v \in vols : (v.from_container = "") = (v.container_path = "")

NoContainer == [status |-> "absent", finishedAt |-> 0, error |-> ""]

\* The dc.RemoveContainerOptions of resourceDockerContainerDelete, and the
\* zero value standing for "no remove call made".
RemoveOpts == [RemoveVolumes |-> TRUE, Force |-> TRUE]
NoRemoveOpts == [RemoveVolumes |-> FALSE, Force |-> FALSE]

NewOp(kind) ==
    [kind |-> kind, pc |-> "idle", nested |-> "", result |-> "", deferred |-> FALSE,
     detail |-> "", exists |-> FALSE, loops |-> 0, i |-> 0,
     inspects |-> 0, sleeps |-> 0, deleteCalls |-> 0, stops |-> 0, removes |-> 0,
     netsLeft |-> 0, uploadsLeft |-> 0, instant |-> 0,
     first |-> "none", lastRunning |-> FALSE, finAfterOwn |-> FALSE,
     deleteResult |-> "", notFound |-> FALSE, starts |-> 0,
     removeOpts |-> NoRemoveOpts, listed |-> "none",
     nets |-> 0, uploads |-> 0, trace |-> <<>>,
     ref |-> "", imageName |-> ""]

\* The operation returns `result` to the host ("ok" is a nil error).
Return(o, result) == [o EXCEPT !.pc = "idle", !.result = result]

\* What the daemon may answer to a call that needs the container to exist.
CallOutcomes(n) == IF docker[n].status = "absent" THEN {FALSE} ELSE BOOLEAN

\* A Create that uploads its files before it connects its networks.
AfterCreateMut(nets, ups) ==
    IF ups > 0 THEN "upload" ELSE IF nets > 0 THEN "connect" ELSE "start"

\* pc after CreateContainer / ConnectNetwork / UploadToContainer.
AfterCreate(nets, ups) ==
    IF nets > 0 THEN "connect" ELSE IF ups > 0 THEN "upload" ELSE "start"

\* What a handler is left with when it has opened its client: the error
\* it returns, or the call it goes on to.
OpenClient(o, next, pong) ==
    LET rc == Connection(providerConfig, ContainerConn, pong)
    IN  IF rc.err # "" THEN Return([o EXCEPT !.deferred = rc.deferred], rc.err)
        ELSE [o EXCEPT !.pc = next]

\* resourceDockerContainerCreate up to its first call to the daemon:
\* GetResolvedConfig and NewClient with its Ping.  refs are the values the
\* image field is drawn from.  The host hands Create a ResourceData without
\* prior state, so the computed ip_address is empty.
CreateWith(n, refs) ==
    /\ op[n].pc = "idle"
    /\ d[n].id = ""
    /\ now < MaxClock
    /\ \E ref \in refs, pong \in BOOLEAN :
         op' = [op EXCEPT ![n] =
                  OpenClient([NewOp("create") EXCEPT !.ref = ref], "listImages", pong)]
    /\ d' = [d EXCEPT ![n].ip_address = ""]
    /\ UNCHANGED <<creationTime, now, docker>>
    /\ UNCHANGED <<resolverVars, kindVars>>

\* fetchLocalImages(&data, client), whose one call is client.ListImages,
\* and Create from there to the CreateContainer call: look the image up,
\* build the create options.
ListImages(n) ==
    /\ op[n].pc = "listImages"
    /\ \E listed \in BOOLEAN :
         LET ol == [op[n] EXCEPT !.trace = <<"ListImages">>]
             oi == [ol EXCEPT !.imageName = ResolveImage(op[n].ref)]
         IN  IF ~listed
             THEN op' = [op EXCEPT ![n] = Return(ol, "list")]
             ELSE IF ResolveImage(op[n].ref) = ""
             THEN op' = [op EXCEPT ![n] = Return(ol, "image")]
             ELSE \E cmd \in Commands :
                    IF CommandHasEmpty(cmd)
                    THEN op' = [op EXCEPT ![n] = Return(oi, "command")]
                    ELSE \E vols \in VolumeSets :
                           IF volumeSetToDockerVolumes(vols)
                           THEN op' = [op EXCEPT ![n] = Return(oi, "volumes")]
                           ELSE \E nets \in 0..MaxNets, ups \in 0..MaxUploads :
                                  op' = [op EXCEPT ![n] =
                                           [oi EXCEPT !.pc = "createContainer",
                                                      !.nets = nets, !.uploads = ups,
                                                      !.netsLeft = nets,
                                                      !.uploadsLeft = ups]]
    /\ UNCHANGED <<creationTime, now, d, docker>>
    /\ UNCHANGED <<resolverVars, kindVars>>

\* What client.CreateContainer returns: a container, an error, or neither.
\* The daemon refuses a second container under the same name.
CreateOutcomes(n) ==
    IF docker[n].status = "absent" THEN {"ok", "nil", "error"} ELSE {"error"}

\* client.CreateContainer(createOpts) and d.SetId(retContainer.ID).
CreateContainer(n) ==
    /\ op[n].pc = "createContainer"
    /\ \E ret \in CreateOutcomes(n) :
         LET o == [op[n] EXCEPT !.trace = Append(@, "CreateContainer")]
         IN  IF ret = "error"
             THEN /\ op' = [op EXCEPT ![n] = Return(o, "create")]
                  /\ UNCHANGED <<d, docker>>
             ELSE IF ret = "nil"
             THEN /\ op' = [op EXCEPT ![n] = Return(o, "nilContainer")]
                  /\ UNCHANGED <<d, docker>>
             ELSE /\ docker' = [docker EXCEPT ![n] = [NoContainer EXCEPT !.status = "created"]]
                  /\ d' = [d EXCEPT ![n].id = ContainerID(n)]
                  /\ op' = [op EXCEPT ![n] =
                               [o EXCEPT !.pc = AfterCreate(o.netsLeft, o.uploadsLeft)]]
    /\ UNCHANGED <<creationTime, now>>
    /\ UNCHANGED <<resolverVars, kindVars>>

Create(n) == CreateWith(n, ProcessImageRefs)

\* A networks loop that gives the identity up when a connect fails.
ConnectNetworkMut(n) ==
    /\ op[n].pc = "connect"
    /\ \E ok \in CallOutcomes(n) :
         IF ok
         THEN /\ op' = [op EXCEPT ![n] =
                          [@ EXCEPT !.netsLeft = @ - 1,
                                    !.trace = Append(@, "ConnectNetwork"),
                                    !.pc = AfterCreate(op[n].netsLeft - 1,
                                                       op[n].uploadsLeft)]]
              /\ UNCHANGED d
         ELSE /\ op' = [op EXCEPT ![n] =
                          Return([@ EXCEPT !.trace = Append(@, "ConnectNetwork")],
                                 "connect")]
              /\ d' = [d EXCEPT ![n].id = ""]
    /\ UNCHANGED <<creationTime, now, docker>>
    /\ UNCHANGED <<resolverVars, kindVars>>

\* One client.ConnectNetwork call of the networks loop.
ConnectNetwork(n) ==
    /\ op[n].pc = "connect"
    /\ \E ok \in CallOutcomes(n) :
         op' = [op EXCEPT ![n] =
                  IF ok THEN [@ EXCEPT !.netsLeft = @ - 1,
                                       !.trace = Append(@, "ConnectNetwork"),
                                       !.pc = AfterCreate(op[n].netsLeft - 1,
                                                          op[n].uploadsLeft)]
                  ELSE Return([@ EXCEPT !.trace = Append(@, "ConnectNetwork")],
                              "connect")]
    /\ UNCHANGED <<creationTime, now, d, docker>>
    /\ UNCHANGED <<resolverVars, kindVars>>

\* One client.UploadToContainer call of the upload loop.
UploadToContainer(n) ==
    /\ op[n].pc = "upload"
    /\ \E ok \in CallOutcomes(n) :
         op' = [op EXCEPT ![n] =
                  IF ok THEN [@ EXCEPT !.uploadsLeft = @ - 1,
                                       !.trace = Append(@, "UploadToContainer"),
                                       !.pc = AfterCreate(0, op[n].uploadsLeft - 1)]
                  ELSE Return([@ EXCEPT !.trace = Append(@, "UploadToContainer")],
                              "upload")]
    /\ UNCHANGED <<creationTime, now, d, docker>>
    /\ UNCHANGED <<resolverVars, kindVars>>

\* The trace of client calls once creationTime is assigned and the start
\* call issued.
StartTrace(trace) == trace \o <<"creationTime", "StartContainer">>

\* creationTime = time.Now(); client.StartContainer.  The started container
\* is not yet running; the daemon moves it on (DaemonRun, DaemonExit).
StartContainer(n) ==
    /\ op[n].pc = "start"
    /\ creationTime' = now
    /\ now' = now + 1
    /\ \E ok \in CallOutcomes(n) :
         IF ok
         THEN /\ docker' = [docker EXCEPT ![n].status = "starting"]
              /\ op' = [op EXCEPT ![n] = [@ EXCEPT !.instant = now, !.starts = @ + 1,
                                                       !.trace = StartTrace(@),
                                                       !.pc = "read"]]
         ELSE /\ op' = [op EXCEPT ![n] = Return([@ EXCEPT !.instant = now,
                                                          !.starts = @ + 1,
                                                          !.trace = StartTrace(@)],
                                                "start")]
              /\ UNCHANGED docker
    /\ UNCHANGED d
    /\ UNCHANGED <<resolverVars, kindVars>>

\* resourceDockerContainerCreate of some other container resource of the
\* process reaching creationTime = time.Now().
PeerCreate ==
    /\ now < MaxClock
    /\ creationTime' = now
    /\ now' = now + 1
    /\ UNCHANGED <<d, docker, op>>
    /\ UNCHANGED <<resolverVars, kindVars>>

\* fetchDockerContainer(d.Id(), client): ListContainers with All set lists
\* every container the daemon has, whatever its state; the call fails, or
\* the scan for the tracked ID hits or misses.
fetchDockerContainer(n, listed) ==
    IF ~listed THEN "error"
    ELSE IF docker[n].status # "absent" /\ d[n].id = ContainerID(n) THEN "hit"
    ELSE "miss"

\* A poll loop that allows itself one attempt more.
LoopsMut == IF creationTime # 0 THEN CreateLoops + 1 ELSE RefreshLoops

\* The number of polls resourceDockerContainerRead allows itself.
Loops == IF creationTime # 0 THEN CreateLoops ELSE RefreshLoops

\* A Read that inspects the tracked ID although the list does not have it.
ReadHeadMut(n, o) ==
    \E listed \in BOOLEAN :
      LET found == fetchDockerContainer(n, listed)
      IN  IF found = "error"
          THEN /\ op' = [op EXCEPT ![n] = Return([o EXCEPT !.listed = "error"], "list")]
               /\ UNCHANGED d
          ELSE /\ op' = [op EXCEPT ![n] =
                           [o EXCEPT !.pc = "inspect", !.loops = Loops, !.i = Loops,
                                     !.listed = found]]
               /\ UNCHANGED d

\* resourceDockerContainerRead from fetchDockerContainer to the poll loop:
\* the list call, the scan, the choice of loops.
ReadHead(n, o) ==
    \E listed \in BOOLEAN :
      LET found == fetchDockerContainer(n, listed)
      IN  IF found = "error"
          THEN /\ op' = [op EXCEPT ![n] = Return([o EXCEPT !.listed = "error"], "list")]
               /\ UNCHANGED d
          ELSE IF found = "miss"
          THEN /\ d' = [d EXCEPT ![n].id = ""]
               /\ op' = [op EXCEPT ![n] = Return([o EXCEPT !.listed = "miss"], "ok")]
          ELSE /\ op' = [op EXCEPT ![n] = [o EXCEPT !.pc = "inspect", !.listed = "hit",
                                                    !.loops = Loops, !.i = Loops]]
               /\ UNCHANGED d

\* resourceDockerContainerExists from fetchDockerContainer on.
ExistsTail(n, o) ==
    \E listed \in BOOLEAN :
      LET found == fetchDockerContainer(n, listed)
      IN  /\ op' = [op EXCEPT ![n] =
                      IF found = "error"
                      THEN Return([o EXCEPT !.listed = "error"], "list")
                      ELSE Return([o EXCEPT !.listed = found,
                                            !.exists = found = "hit"], "ok")]
          /\ UNCHANGED d

\* The client.ListContainers call of fetchDockerContainer, in Read and in
\* Exists, with what the handler does on its answer.
ListContainers(n) ==
    /\ op[n].pc = "listContainers"
    /\ IF op[n].kind = "exists" THEN ExistsTail(n, op[n]) ELSE ReadHead(n, op[n])
    /\ UNCHANGED <<creationTime, now, docker>>
    /\ UNCHANGED <<resolverVars, kindVars>>

\* The Read the host invokes on refresh, up to its first call to the
\* daemon: GetResolvedConfig and NewClient with its Ping.
Read(n) ==
    /\ op[n].pc = "idle"
    /\ d[n].id # ""
    /\ \E pong \in BOOLEAN :
         op' = [op EXCEPT ![n] = OpenClient(NewOp("read"), "listContainers", pong)]
    /\ UNCHANGED <<creationTime, now, d, docker>>
    /\ UNCHANGED <<resolverVars, kindVars>>

\* The Read that ends Create, return resourceDockerContainerRead(d, meta),
\* up to its first call to the daemon.
CreateRead(n) ==
    /\ op[n].pc = "read"
    /\ \E pong \in BOOLEAN :
         op' = [op EXCEPT ![n] = OpenClient(op[n], "listContainers", pong)]
    /\ UNCHANGED <<creationTime, now, d, docker>>
    /\ UNCHANGED <<resolverVars, kindVars>>

\* What resourceDockerContainerDelete's caller makes of its result: Read
\* drops it before its own two errors and returns it otherwise.
DeleteReturn(o, result) ==
    Return([o EXCEPT !.deleteResult = result],
           IF o.nested = "exited" THEN "exited"
           ELSE IF o.nested = "timeout" THEN "notRunning"
           ELSE result)

\* A Delete that goes straight to the remove call.
EnterDeleteMut(o, n, why, pong) ==
    LET rc == Connection(providerConfig, ContainerConn, pong)
        e  == [o EXCEPT !.deleteCalls = @ + 1, !.nested = why]
    IN  IF rc.err # ""
        THEN DeleteReturn([e EXCEPT !.deferred = rc.deferred], rc.err)
        ELSE [e EXCEPT !.pc = "remove"]

\* resourceDockerContainerDelete up to its first client call: open the
\* client, test destroy_grace_seconds.  `why` is "" for the host's Delete,
\* "return" when Read returns its result, "exited" and "timeout" when Read
\* drops its result and returns its own error.
EnterDelete(o, n, why, pong) ==
    LET rc == Connection(providerConfig, ContainerConn, pong)
        e  == [o EXCEPT !.deleteCalls = @ + 1, !.nested = why]
    IN  IF rc.err # ""
        THEN DeleteReturn([e EXCEPT !.deferred = rc.deferred], rc.err)
        ELSE [e EXCEPT !.pc = IF d[n].destroy_grace_seconds > 0 THEN "stop"
                              ELSE "remove"]

\* What a read of creationTime returns when the write of another Create
\* (creationTime = time.Now(), three words, no lock) lands during it and
\* the variable held the zero time: the old wall word with the new
\* monotonic word, an instant after the zero time and before every reading
\* of the clock.  The other mixtures read as the old or as the new value.
TornTime == -1

\* t.After(u), u a read of creationTime.
After(t, u) == IF u = TornTime THEN t # 0 ELSE t > u

\* How one observation compares with the creation instants; marker is
\* the value read from creationTime.
Observation(n, instant, marker) ==
    IF docker[n].status = "running" THEN "running"
    ELSE IF After(docker[n].finishedAt, marker) THEN "finishedAfterMarker"
    ELSE IF docker[n].finishedAt > instant THEN "finishedAfterOwn"
    ELSE "notRunning"

\* One pass of the poll loop up to time.Sleep or to the call of Delete:
\* InspectContainer and the three tests on what it reports.  settings is
\* whether the answer carries NetworkSettings; torn is whether the write
\* of creationTime by another Create races with the reads of it here, and
\* if so that write has landed when the step is over.
InspectContainer(n) ==
    /\ op[n].pc = "inspect"
    /\ \E ok \in CallOutcomes(n), settings \in BOOLEAN,
          torn \in (IF creationTime = 0 /\ now < MaxClock THEN BOOLEAN ELSE {FALSE}) :
       IF ~ok
       THEN /\ op' = [op EXCEPT ![n] = Return([@ EXCEPT !.inspects = @ + 1], "inspect")]
            /\ UNCHANGED <<d, creationTime, now>>
       ELSE LET running == docker[n].status = "running"
                marker == IF torn THEN TornTime ELSE creationTime
                seen == Observation(n, op[n].instant, marker)
                o == [op[n] EXCEPT !.inspects = @ + 1,
                                   !.lastRunning = running,
                                   !.first = IF @ = "none" THEN seen ELSE @,
                                   !.finAfterOwn = @ \/ (~running /\
                                        docker[n].finishedAt > op[n].instant)]
            IN  IF running \/ ~d[n].must_run
                THEN /\ op' = [op EXCEPT ![n] = Return(o, "ok")]
                     /\ d' = [d EXCEPT ![n].ip_address =
                                 IF ~settings THEN @
                                 ELSE IF running THEN "172.17.0.2" ELSE ""]
                     /\ UNCHANGED <<creationTime, now>>
                ELSE /\ IF torn
                        THEN creationTime' = now /\ now' = now + 1
                        ELSE UNCHANGED <<creationTime, now>>
                     /\ UNCHANGED d
                     /\ op' = [op EXCEPT ![n] =
                          IF marker = 0
                          THEN [o EXCEPT !.pc = "delete", !.nested = "return"]
                          ELSE IF After(docker[n].finishedAt, marker)
                          THEN [o EXCEPT !.pc = "delete", !.nested = "exited",
                                         !.detail = docker[n].error]
                          ELSE [o EXCEPT !.pc = "sleep"]]
    /\ UNCHANGED docker
    /\ UNCHANGED <<resolverVars, kindVars>>

\* resourceDockerContainerDelete(d, meta) called by Read, up to its first
\* call to the daemon.
ReadDelete(n) ==
    /\ op[n].pc = "delete"
    /\ \E pong \in BOOLEAN :
         op' = [op EXCEPT ![n] = EnterDelete(op[n], n, op[n].nested, pong)]
    /\ UNCHANGED <<creationTime, now, d, docker>>
    /\ UNCHANGED <<resolverVars, kindVars>>

\* A poll loop that is content when it has run its course.
SleepMut(n) ==
    /\ op[n].pc = "sleep"
    /\ LET o == [op[n] EXCEPT !.sleeps = @ + 1, !.i = @ - 1]
       IN  op' = [op EXCEPT ![n] =
                    IF o.i > 0 THEN [o EXCEPT !.pc = "inspect"]
                    ELSE Return(o, "ok")]
    /\ UNCHANGED <<creationTime, now, d, docker>>
    /\ UNCHANGED <<resolverVars, kindVars>>

\* time.Sleep(sleepTime); i--; and, when the loop has run its course, the
\* test that follows it, up to the call of Delete.
Sleep(n) ==
    /\ op[n].pc = "sleep"
    /\ LET o == [op[n] EXCEPT !.sleeps = @ + 1, !.i = @ - 1]
       IN  IF o.i > 0 THEN op' = [op EXCEPT ![n] = [o EXCEPT !.pc = "inspect"]]
           ELSE IF ~o.lastRunning /\ d[n].must_run
           THEN op' = [op EXCEPT ![n] = [o EXCEPT !.pc = "delete", !.nested = "timeout"]]
           ELSE op' = [op EXCEPT ![n] = Return(o, "ok")]
    /\ UNCHANGED <<creationTime, now, d, docker>>
    /\ UNCHANGED <<resolverVars, kindVars>>

\* The daemon's answers to POST /containers/(id)/stop as the client library
\* returns them: 404 is NoSuchContainer, 304 (already stopped) is
\* ContainerNotRunning, both errors.
StopOutcomes(n) ==
    IF docker[n].status \in {"running", "starting"} THEN BOOLEAN ELSE {FALSE}

\* The Delete the host invokes on destroy.
Delete(n) ==
    /\ op[n].pc = "idle"
    /\ d[n].id # ""
    /\ \E pong \in BOOLEAN :
         op' = [op EXCEPT ![n] = EnterDelete(NewOp("delete"), n, "", pong)]
    /\ UNCHANGED <<creationTime, now, d, docker>>
    /\ UNCHANGED <<resolverVars, kindVars>>

\* client.StopContainer(d.Id(), timeout) when destroy_grace_seconds > 0.
StopContainer(n) ==
    /\ op[n].pc = "stop"
    /\ \E ok \in StopOutcomes(n) :
         IF ok
         THEN /\ docker' = [docker EXCEPT ![n] =
                              [status |-> "exited", finishedAt |-> now,
                               error |-> ""]]
              /\ op' = [op EXCEPT ![n] = [@ EXCEPT !.stops = @ + 1, !.pc = "remove"]]
         ELSE /\ op' = [op EXCEPT ![n] =
                          DeleteReturn([@ EXCEPT !.stops = @ + 1,
                                                 !.notFound = docker[n].status = "absent"],
                                       "stop")]
              /\ UNCHANGED docker
    /\ UNCHANGED <<creationTime, now, d>>
    /\ UNCHANGED <<resolverVars, kindVars>>

\* client.RemoveContainer(force, remove volumes); d.SetId("") on success.
RemoveContainer(n) ==
    /\ op[n].pc = "remove"
    /\ \E ok \in CallOutcomes(n) :
         IF ok
         THEN /\ docker' = [docker EXCEPT ![n] = NoContainer]
              /\ d' = [d EXCEPT ![n].id = ""]
              /\ op' = [op EXCEPT ![n] = DeleteReturn([@ EXCEPT !.removes = @ + 1,
                                                      !.removeOpts = RemoveOpts],
                                            "ok")]
         ELSE /\ op' = [op EXCEPT ![n] =
                          DeleteReturn([@ EXCEPT !.removes = @ + 1,
                                                 !.removeOpts = RemoveOpts,
                                                 !.notFound = docker[n].status = "absent"],
                                       "remove")]
              /\ UNCHANGED <<d, docker>>
    /\ UNCHANGED <<creationTime, now>>
    /\ UNCHANGED <<resolverVars, kindVars>>

\* resourceDockerContainerExists up to its first call to the daemon: a
\* deferred resolution is (false, nil).
Exists(n) ==
    /\ op[n].pc = "idle"
    /\ d[n].id # ""
    /\ \E pong \in BOOLEAN :
       LET rc == Connection(providerConfig, ContainerConn, pong)
           o  == [NewOp("exists") EXCEPT !.deferred = rc.deferred]
       IN  op' = [op EXCEPT ![n] =
                    IF rc.deferred THEN Return(o, "ok")
                    ELSE IF rc.err # "" THEN Return(o, rc.err)
                    ELSE [o EXCEPT !.pc = "listContainers"]]
    /\ UNCHANGED <<creationTime, now, d, docker>>
    /\ UNCHANGED <<resolverVars, kindVars>>

\* resourceDockerContainerUpdate: return nil.
Update(n) ==
    /\ op[n].pc = "idle"
    /\ d[n].id # ""
    /\ op' = [op EXCEPT ![n] = Return(NewOp("update"), "ok")]
    /\ UNCHANGED <<creationTime, now, d, docker>>
    /\ UNCHANGED <<resolverVars, kindVars>>

(***************************************************************************)
(* The daemon: a started container comes up, a live one exits (the daemon  *)
(* stamps State.FinishedAt and State.Error), a restart policy brings an    *)
(* exited one back, and anything may be removed behind the provider's back.*)
(***************************************************************************)
DaemonRun(n) ==
    /\ docker[n].status \in {"starting", "exited"}
    /\ docker' = [docker EXCEPT ![n].status = "running"]
    /\ UNCHANGED <<creationTime, now, d, op>>
    /\ UNCHANGED <<resolverVars, kindVars>>

DaemonExit(n) ==
    /\ docker[n].status \in {"starting", "running"}
    /\ docker' = [docker EXCEPT ![n] = [status |-> "exited", finishedAt |-> now,
                                        error |-> "exec failed"]]
    /\ UNCHANGED <<creationTime, now, d, op>>
    /\ UNCHANGED <<resolverVars, kindVars>>

DaemonVanish(n) ==
    /\ docker[n].status # "absent"
    /\ docker' = [docker EXCEPT ![n] = NoContainer]
    /\ UNCHANGED <<creationTime, now, d, op>>
    /\ UNCHANGED <<resolverVars, kindVars>>

(***************************************************************************)
(* Image, network and volume reconcilers.  Each handler runs under the     *)
(* host's per-resource serialisation.  A handler that makes one client     *)
(* call is one step; the image's Create makes several and takes one step   *)
(* per call, last.pc naming the call it stands before ("idle" between      *)
(* operations).  What a handler did is kept                                *)
(* in the record `last`: the client calls in order, the error returned     *)
(* ("ok" for nil), the deferred flag GetResolvedConfig gave it, whether    *)
(* the client answered not-found, the client's answer to the inspect or    *)
(* remove call, and for Exists the boolean returned.                       *)
(* The image and volume schemas declare host but not hostname, the network *)
(* schema declares neither.                                                *)
(***************************************************************************)
ImageConn == [host |-> "", machine_name |-> ""]
VolumeConn == [host |-> "", machine_name |-> ""]
NetworkConn == [name |-> "net"]

NoLast ==
    [kind |-> "none", verb |-> "none", pc |-> "idle", result |-> "",
     deferred |-> FALSE,
     exists |-> FALSE, notFound |-> FALSE, answer |-> "", changed |-> FALSE,
     calls |-> <<>>, sent |-> [internal |-> FALSE, options |-> ""]]

Done(kind, verb, rc, result, calls) ==
    [NoLast EXCEPT !.kind = kind, !.verb = verb, !.result = result,
                   !.deferred = rc.deferred, !.calls = calls]

\* rec with the client's answer to its inspect or remove call.
Answer(rec, res) == [rec EXCEPT !.answer = res]

Call(name, arg) == [call |-> name, arg |-> arg]

\* strings.Join([]string{a, b}, sep)
StringsJoin(a, b, sep) == a \o sep \o b

\* repoName of resourceDockerImageCreate
RepoName(img) ==
    IF img.registry # "" THEN StringsJoin(img.registry, img.name, "/") ELSE img.name

\* imageName of resourceDockerImageCreate: the tag is appended when set.
CreateImageName(img) ==
    IF img.tag # "" THEN StringsJoin(RepoName(img), img.tag, ":") ELSE RepoName(img)

\* imageName of resourceDockerImageDelete: name and tag are always joined.
DeleteImageName(img) ==
    IF img.registry # ""
    THEN StringsJoin(img.registry, StringsJoin(img.name, img.tag, ":"), "/")
    ELSE StringsJoin(img.name, img.tag, ":")

\* Name of the PushImageOptions built by Create and Update.
PushName(img) == StringsJoin(img.registry, img.name, "/")

HasTag(ref) == \E k \in 1..Len(ref) : SubSeq(ref, k, k) = ":"

\* The daemon refuses a reference that ends in a colon or is empty.
ValidRef(ref) == ref # "" /\ SubSeq(ref, Len(ref), Len(ref)) # ":"

\* The daemon reads an untagged reference as tag latest.
Canon(ref) == IF HasTag(ref) THEN ref ELSE ref \o ":latest"

\* client.InspectImage(ref) against the daemon's images.
InspectImage(ref, images, fault) ==
    IF fault \/ ~ValidRef(ref) THEN "error"
    ELSE IF Canon(ref) \in images THEN "ok"
    ELSE "ErrNoSuchImage"

\* client.RemoveImageExtended(ref, Force) against the daemon's images.
RemoveImageExtended(ref, images, fault) ==
    IF fault \/ ~ValidRef(ref) THEN "error"
    ELSE IF Canon(ref) \in images THEN "ok"
    ELSE "ErrNoSuchImage"

\* The acquisition step of Create: the call made, its error and the image
\* it leaves in the daemon.  A loaded archive carries its own tags.
Acquire(img, fault, loaded) ==
    IF img.pull
    THEN [calls |-> <<Call("PullImage", RepoName(img))>>,
          err |-> IF fault THEN "pull" ELSE "",
          adds |-> IF fault THEN {} ELSE {Canon(CreateImageName(img))}]
    ELSE IF img.load_path # ""
    THEN IF ReadFile(img.load_path).err
         THEN [calls |-> <<>>, err |-> "open", adds |-> {}]
         ELSE [calls |-> <<Call("LoadImage", img.load_path)>>,
               err |-> IF fault THEN "load" ELSE "",
               adds |-> IF fault THEN {} ELSE {loaded}]
    ELSE IF img.build_local_path # "" \/ img.build_remote_path # ""
    THEN [calls |-> <<Call("BuildImage", CreateImageName(img))>>,
          err |-> IF fault THEN "build" ELSE "",
          adds |-> IF fault \/ ~ValidRef(CreateImageName(img)) THEN {}
                   ELSE {Canon(CreateImageName(img))}]
    ELSE [calls |-> <<>>, err |-> "", adds |-> {}]

\* The body of resourceDockerImageRead after the client is built: the
\* identifier is cleared and the error returned on any inspect error.
ImageReadBody(id, images, fault) ==
    LET res == InspectImage(id, images, fault)
    IN  [calls |-> <<Call("InspectImage", id)>>,
         result |-> res,
         id |-> IF res = "ok" THEN id ELSE "",
         imageID |-> IF res = "ok" THEN "sha256:" \o Canon(id) ELSE ""]

\* Create has made `calls` and stands before the call named by pc.
Going(rc, pc, calls) ==
    [Done("image", "create", rc, "", calls) EXCEPT !.pc = pc]

\* d.SetId(imageName), which precedes the Read that ends Create.
SetId(img, pc) == IF pc = "read" THEN [img EXCEPT !.id = CreateImageName(img)] ELSE img

\* pc of Create once the acquisition is behind it.
AfterAcquire(img) == IF img.push THEN "push" ELSE "read"

\* resourceDockerImageCreate up to its first call after NewClient: the
\* connection, getAuthConfig, the two names and the choice of the switch;
\* os.OpenFile of load_path is a local call and its error returns here.
ImageCreateHead ==
    /\ image.id = ""
    /\ \E pong \in BOOLEAN :
         LET rc  == Connection(providerConfig, ImageConn, pong)
             acq == Acquire(image, FALSE, "")
             pc  == IF acq.calls # <<>> THEN "acquire" ELSE AfterAcquire(image)
         IN  IF rc.err # ""
             THEN /\ last' = Done("image", "create", rc, rc.err, <<>>)
                  /\ UNCHANGED image
             ELSE IF acq.err # ""
             THEN /\ last' = Done("image", "create", rc, acq.err, <<>>)
                  /\ UNCHANGED image
             ELSE /\ last' = Going(rc, pc, <<>>)
                  /\ image' = SetId(image, pc)
    /\ UNCHANGED daemon

\* The case of the switch: client.PullImage, client.LoadImage or
\* client.BuildImage.
ImageAcquire ==
    \E fault \in BOOLEAN, loaded \in {Canon(CreateImageName(image)), "other:latest"} :
       LET acq == Acquire(image, fault, loaded)
       IN  IF acq.err # ""
           THEN /\ last' = [last EXCEPT !.pc = "idle", !.result = acq.err,
                                        !.calls = acq.calls]
                /\ UNCHANGED <<image, daemon>>
           ELSE /\ last' = [last EXCEPT !.pc = AfterAcquire(image),
                                        !.calls = acq.calls]
                /\ daemon' = [daemon EXCEPT !.images = @ \cup acq.adds]
                /\ image' = SetId(image, AfterAcquire(image))

\* client.PushImage when push is set.
ImagePush ==
    /\ \E fault \in BOOLEAN :
         LET calls == Append(last.calls, Call("PushImage", PushName(image)))
         IN  IF fault
             THEN /\ last' = [last EXCEPT !.pc = "idle", !.result = "push",
                                          !.calls = calls]
                  /\ UNCHANGED image
             ELSE /\ last' = [last EXCEPT !.pc = "read", !.calls = calls]
                  /\ image' = SetId(image, "read")
    /\ UNCHANGED daemon

\* return resourceDockerImageRead(d, meta): the connection is opened again,
\* and its error is returned with the id set; then the inspect.
ImageCreateRead ==
    /\ \E pong \in BOOLEAN, fault \in BOOLEAN :
         LET rc == Connection(providerConfig, ImageConn, pong)
             rd == ImageReadBody(image.id, daemon.images, fault)
         IN  IF rc.err # ""
             THEN /\ last' = [last EXCEPT !.pc = "idle", !.result = rc.err,
                                          !.deferred = rc.deferred]
                  /\ UNCHANGED image
             ELSE /\ last' = [last EXCEPT !.pc = "idle", !.result = rd.result,
                                          !.calls = @ \o rd.calls]
                  /\ image' = [image EXCEPT !.id = rd.id, !.imageID = rd.imageID]
    /\ UNCHANGED daemon

\* resourceDockerImageCreate, one client call at a time: last.pc is where
\* the handler stands, and the daemon's images may change between calls.
ImageCreate ==
    /\ IF last.pc = "idle" THEN ImageCreateHead
       ELSE IF last.pc = "acquire" THEN ImageAcquire
       ELSE IF last.pc = "push" THEN ImagePush
       ELSE ImageCreateRead
    /\ UNCHANGED <<network, volume>>
    /\ UNCHANGED <<resolverVars, containerVars>>

ImageRead ==
    /\ last.pc = "idle"
    /\ image.id # ""
    /\ \E pong \in BOOLEAN, fault \in BOOLEAN :
         LET rc == Connection(providerConfig, ImageConn, pong)
             rd == ImageReadBody(image.id, daemon.images, fault)
         IN  IF rc.err # ""
             THEN /\ last' = Done("image", "read", rc, rc.err, <<>>)
                  /\ UNCHANGED image
             ELSE /\ last' = [Done("image", "read", rc, rd.result, rd.calls)
                                EXCEPT !.notFound = (rd.result = "ErrNoSuchImage"),
                                       !.answer = rd.result]
                  /\ image' = [image EXCEPT !.id = rd.id,
                                            !.imageID = IF rd.result = "ok" THEN rd.imageID
                                                        ELSE @]
    /\ UNCHANGED <<network, volume, daemon>>
    /\ UNCHANGED <<resolverVars, containerVars>>

\* resourceDockerImageUpdate.  push is the value the new configuration
\* gives the field, so d.HasChange("push") is push # image.push; the host
\* keeps the new value in the resource data.
ImageUpdate ==
    /\ last.pc = "idle"
    /\ image.id # ""
    /\ \E pong \in BOOLEAN, fault \in BOOLEAN, push \in BOOLEAN :
         LET rc == Connection(providerConfig, ImageConn, pong)
             changed == push # image.push
             img == [image EXCEPT !.push = push]
         IN  /\ image' = img
             /\ last' =
                  [(IF rc.err # "" THEN Done("image", "update", rc, rc.err, <<>>)
                    ELSE IF changed /\ img.push
                    THEN Done("image", "update", rc, IF fault THEN "push" ELSE "ok",
                              <<Call("PushImage", PushName(img))>>)
                    ELSE Done("image", "update", rc, "ok", <<>>))
                   EXCEPT !.changed = changed]
    /\ UNCHANGED <<network, volume, daemon>>
    /\ UNCHANGED <<resolverVars, containerVars>>

ImageDelete ==
    /\ last.pc = "idle"
    /\ image.id # ""
    /\ \E pong \in BOOLEAN, fault \in BOOLEAN :
         LET rc  == Connection(providerConfig, ImageConn, pong)
             ref == DeleteImageName(image)
             res == RemoveImageExtended(ref, daemon.images, fault)
         IN  IF rc.err # ""
             THEN /\ last' = Done("image", "delete", rc, rc.err, <<>>)
                  /\ UNCHANGED daemon
             ELSE IF image.keep
             THEN /\ last' = Done("image", "delete", rc, "ok", <<>>)
                  /\ UNCHANGED daemon
             ELSE /\ last' = [Done("image", "delete", rc, res,
                                   <<Call("RemoveImageExtended", ref)>>)
                                EXCEPT !.notFound = (res = "ErrNoSuchImage"),
                                       !.answer = res]
                  /\ daemon' = [daemon EXCEPT !.images =
                                   IF res = "ok" THEN @ \ {Canon(ref)} ELSE @]
    /\ UNCHANGED <<image, network, volume>>
    /\ UNCHANGED <<resolverVars, containerVars>>

\* resourceDockerImageExists
ImageExists ==
    /\ last.pc = "idle"
    /\ image.id # ""
    /\ \E pong \in BOOLEAN, fault \in BOOLEAN :
         LET rc  == Connection(providerConfig, ImageConn, pong)
             res == InspectImage(image.id, daemon.images, fault)
         IN  last' =
               IF rc.deferred THEN Done("image", "exists", rc, "ok", <<>>)
               ELSE IF rc.err # "" THEN Done("image", "exists", rc, rc.err, <<>>)
               ELSE [Done("image", "exists", rc,
                          IF res = "ErrNoSuchImage" THEN "ok" ELSE res,
                          <<Call("InspectImage", image.id)>>)
                       EXCEPT !.exists = (res = "ok"), !.answer = res]
    /\ UNCHANGED <<image, network, volume, daemon>>
    /\ UNCHANGED <<resolverVars, containerVars>>

\* Somebody else removes an image from the daemon.
ImageVanish ==
    /\ \E ref \in daemon.images : daemon' = [daemon EXCEPT !.images = @ \ {ref}]
    /\ UNCHANGED <<image, network, volume, last>>
    /\ UNCHANGED <<resolverVars, containerVars>>

(***************************************************************************)
(* Network reconciler.  The daemon keeps at most the one network of the    *)
(* resource: [present, id, internal, options].                             *)
(***************************************************************************)
NetworkID == "net-1"

NoNetwork == [present |-> FALSE, internal |-> FALSE, options |-> ""]

\* client.NetworkInfo(id) / client.RemoveNetwork(id)
NetworkCall(id, net, fault) ==
    IF fault THEN "error"
    ELSE IF net.present /\ id = NetworkID THEN "ok"
    ELSE "NoSuchNetwork"

\* The Internal and Options fields of the dc.CreateNetworkOptions built
\* from the resource data.
CreateNetworkOptions(net) == [internal |-> net.internal, options |-> net.options]

\* echo: whether the daemon's create response carries the options back.
NetworkCreate ==
    /\ network.id = ""
    /\ \E pong \in BOOLEAN, fault \in BOOLEAN, echo \in BOOLEAN :
         LET rc == Connection(providerConfig, NetworkConn, pong)
             calls == <<Call("CreateNetwork", network.name)>>
         IN  IF rc.err # ""
             THEN /\ last' = Done("network", "create", rc, rc.err, <<>>)
                  /\ UNCHANGED <<network, daemon>>
             ELSE IF fault
             THEN /\ last' = Done("network", "create", rc, "create", calls)
                  /\ UNCHANGED <<network, daemon>>
             ELSE /\ last' = [Done("network", "create", rc, "ok", calls)
                                EXCEPT !.sent = CreateNetworkOptions(network)]
                  /\ daemon' = [daemon EXCEPT !.network =
                                   [present |-> TRUE,
                                    internal |-> CreateNetworkOptions(network).internal,
                                    options |-> CreateNetworkOptions(network).options]]
                  /\ network' = [network EXCEPT
                                   !.id = NetworkID,
                                   !.options = IF echo THEN network.options ELSE "",
                                   !.internal = CreateNetworkOptions(network).internal]
    /\ UNCHANGED <<image, volume>>
    /\ UNCHANGED <<resolverVars, containerVars>>

\* resourceDockerNetworkRead
NetworkRead ==
    /\ network.id # ""
    /\ \E pong \in BOOLEAN, fault \in BOOLEAN :
         LET rc  == Connection(providerConfig, NetworkConn, pong)
             res == NetworkCall(network.id, daemon.network, fault)
             calls == <<Call("NetworkInfo", network.id)>>
         IN  IF rc.err # ""
             THEN /\ last' = Done("network", "read", rc, rc.err, <<>>)
                  /\ UNCHANGED network
             ELSE IF res = "error"
             THEN /\ last' = Answer(Done("network", "read", rc, "inspect", calls), res)
                  /\ UNCHANGED network
             ELSE IF res = "NoSuchNetwork"
             THEN /\ last' = [Answer(Done("network", "read", rc, "ok", calls), res)
                                EXCEPT !.notFound = TRUE]
                  /\ network' = [network EXCEPT !.id = ""]
             ELSE /\ last' = Answer(Done("network", "read", rc, "ok", calls), res)
                  /\ network' = [network EXCEPT !.options = daemon.network.options,
                                                !.internal = daemon.network.internal]
    /\ UNCHANGED <<image, volume, daemon>>
    /\ UNCHANGED <<resolverVars, containerVars>>

NetworkDelete ==
    /\ network.id # ""
    /\ \E pong \in BOOLEAN, fault \in BOOLEAN :
         LET rc  == Connection(providerConfig, NetworkConn, pong)
             res == NetworkCall(network.id, daemon.network, fault)
             calls == <<Call("RemoveNetwork", network.id)>>
         IN  IF rc.err # ""
             THEN /\ last' = Done("network", "delete", rc, rc.err, <<>>)
                  /\ UNCHANGED <<network, daemon>>
             ELSE IF res = "error"
             THEN /\ last' = Answer(Done("network", "delete", rc, "remove", calls), res)
                  /\ UNCHANGED <<network, daemon>>
             ELSE /\ last' = [Answer(Done("network", "delete", rc, "ok", calls), res)
                                EXCEPT !.notFound = (res = "NoSuchNetwork")]
                  /\ daemon' = [daemon EXCEPT !.network = NoNetwork]
                  /\ network' = [network EXCEPT !.id = ""]
    /\ UNCHANGED <<image, volume>>
    /\ UNCHANGED <<resolverVars, containerVars>>

NetworkExists ==
    /\ network.id # ""
    /\ \E pong \in BOOLEAN, fault \in BOOLEAN :
         LET rc  == Connection(providerConfig, NetworkConn, pong)
             res == NetworkCall(network.id, daemon.network, fault)
             calls == <<Call("NetworkInfo", network.id)>>
         IN  last' =
               IF rc.deferred THEN Done("network", "exists", rc, "ok", <<>>)
               ELSE IF rc.err # "" THEN Done("network", "exists", rc, rc.err, <<>>)
               ELSE IF res = "error"
               THEN Answer(Done("network", "exists", rc, "inspect", calls), res)
               ELSE [Answer(Done("network", "exists", rc, "ok", calls), res)
                       EXCEPT !.exists = (res = "ok")]
    /\ UNCHANGED <<image, network, volume, daemon>>
    /\ UNCHANGED <<resolverVars, containerVars>>

NetworkVanish ==
    /\ daemon.network.present
    /\ daemon' = [daemon EXCEPT !.network = NoNetwork]
    /\ UNCHANGED <<image, network, volume, last>>
    /\ UNCHANGED <<resolverVars, containerVars>>

(***************************************************************************)
(* Volume reconciler.  The daemon names a volume created without a name.   *)
(***************************************************************************)
GeneratedVolumeName == "vol-generated"

NoVolume == [present |-> FALSE, name |-> "", mountpoint |-> ""]

\* client.InspectVolume(name) / client.RemoveVolume(name)
VolumeCall(name, vol, fault) ==
    IF fault THEN "error"
    ELSE IF vol.present /\ vol.name = name THEN "ok"
    ELSE "ErrNoSuchVolume"

VolumeCreate ==
    /\ volume.id = ""
    /\ \E pong \in BOOLEAN, fault \in BOOLEAN :
         LET rc == Connection(providerConfig, VolumeConn, pong)
             calls == <<Call("CreateVolume", volume.name)>>
             name == IF volume.name # "" THEN volume.name ELSE GeneratedVolumeName
             ret == [present |-> TRUE, name |-> name,
                     mountpoint |-> "/var/lib/docker/volumes/" \o name]
         IN  IF rc.err # ""
             THEN /\ last' = Done("volume", "create", rc, rc.err, <<>>)
                  /\ UNCHANGED <<volume, daemon>>
             ELSE IF fault
             THEN /\ last' = Done("volume", "create", rc, "create", calls)
                  /\ UNCHANGED <<volume, daemon>>
             ELSE /\ last' = Done("volume", "create", rc, "ok", calls)
                  /\ daemon' = [daemon EXCEPT !.volume = ret]
                  /\ volume' = [volume EXCEPT !.id = ret.name, !.name = ret.name,
                                              !.mountpoint = ret.mountpoint]
    /\ UNCHANGED <<image, network>>
    /\ UNCHANGED <<resolverVars, containerVars>>

VolumeRead ==
    /\ volume.id # ""
    /\ \E pong \in BOOLEAN, fault \in BOOLEAN :
         LET rc  == Connection(providerConfig, VolumeConn, pong)
             res == VolumeCall(volume.id, daemon.volume, fault)
             calls == <<Call("InspectVolume", volume.id)>>
         IN  IF rc.err # ""
             THEN /\ last' = Done("volume", "read", rc, rc.err, <<>>)
                  /\ UNCHANGED volume
             ELSE IF res = "error"
             THEN /\ last' = Answer(Done("volume", "read", rc, "inspect", calls), res)
                  /\ UNCHANGED volume
             ELSE IF res = "ErrNoSuchVolume"
             THEN /\ last' = [Answer(Done("volume", "read", rc, "ok", calls), res)
                                EXCEPT !.notFound = TRUE]
                  /\ volume' = [volume EXCEPT !.id = ""]
             ELSE /\ last' = Answer(Done("volume", "read", rc, "ok", calls), res)
                  /\ volume' = [volume EXCEPT !.name = daemon.volume.name,
                                              !.mountpoint = daemon.volume.mountpoint]
    /\ UNCHANGED <<image, network, daemon>>
    /\ UNCHANGED <<resolverVars, containerVars>>

VolumeDelete ==
    /\ volume.id # ""
    /\ \E pong \in BOOLEAN, fault \in BOOLEAN :
         LET rc  == Connection(providerConfig, VolumeConn, pong)
             res == VolumeCall(volume.id, daemon.volume, fault)
             calls == <<Call("RemoveVolume", volume.id)>>
         IN  IF rc.err # ""
             THEN /\ last' = Done("volume", "delete", rc, rc.err, <<>>)
                  /\ UNCHANGED <<volume, daemon>>
             ELSE IF res = "error"
             THEN /\ last' = Answer(Done("volume", "delete", rc, "remove", calls), res)
                  /\ UNCHANGED <<volume, daemon>>
             ELSE /\ last' = [Answer(Done("volume", "delete", rc, "ok", calls), res)
                                EXCEPT !.notFound = (res = "ErrNoSuchVolume")]
                  /\ daemon' = [daemon EXCEPT !.volume =
                                   IF res = "ok" THEN NoVolume ELSE @]
                  /\ volume' = [volume EXCEPT !.id = ""]
    /\ UNCHANGED <<image, network>>
    /\ UNCHANGED <<resolverVars, containerVars>>

VolumeExists ==
    /\ volume.id # ""
    /\ \E pong \in BOOLEAN, fault \in BOOLEAN :
         LET rc  == Connection(providerConfig, VolumeConn, pong)
             res == VolumeCall(volume.id, daemon.volume, fault)
             calls == <<Call("InspectVolume", volume.id)>>
         IN  last' =
               IF rc.deferred THEN Done("volume", "exists", rc, "ok", <<>>)
               ELSE IF rc.err # "" THEN Done("volume", "exists", rc, rc.err, <<>>)
               ELSE IF res = "error"
               THEN Answer(Done("volume", "exists", rc, "inspect", calls), res)
               ELSE [Answer(Done("volume", "exists", rc, "ok", calls), res)
                       EXCEPT !.exists = (res = "ok")]
    /\ UNCHANGED <<image, network, volume, daemon>>
    /\ UNCHANGED <<resolverVars, containerVars>>

VolumeVanish ==
    /\ daemon.volume.present
    /\ daemon' = [daemon EXCEPT !.volume = NoVolume]
    /\ UNCHANGED <<image, network, volume, last>>
    /\ UNCHANGED <<resolverVars, containerVars>>

\* Resource data before Create, and a daemon that holds nothing.
NewImage(registry, tag, acq, loadPath, push, keep) ==
    [id |-> "", imageID |-> "", registry |-> registry, name |-> "app", tag |-> tag,
     pull |-> ("pull" \in acq),
     load_path |-> IF "load" \in acq THEN loadPath ELSE "",
     build_local_path |-> IF "build_local" \in acq THEN "/ctx" ELSE "",
     build_remote_path |-> IF "build_remote" \in acq THEN "git://ctx" ELSE "",
     push |-> push, keep |-> keep]

NoImage == NewImage("", "", {}, "", FALSE, FALSE)
NewNetwork(internal, options) ==
    [id |-> "", name |-> "net", internal |-> internal, options |-> options]
NewVolume(name) == [id |-> "", name |-> name, mountpoint |-> ""]

EmptyDaemon == [images |-> {}, network |-> NoNetwork, volume |-> NoVolume]

\* Nothing but containers is managed.
NoKinds ==
    /\ image = NoImage
    /\ network = NewNetwork(FALSE, "")
    /\ volume = NewVolume("")
    /\ daemon = EmptyDaemon
    /\ last = NoLast

(***************************************************************************)
(* Resolver specification: every base configuration and resource override  *)
(* of the bounded sets below, resolved once and then connected.            *)
(* The base is a ProviderConfig value as the handlers receive it in meta.  *)
(* No key of the provider schema feeds HostName, so it is empty in every   *)
(* base; the host name comes from the resource.                            *)
(***************************************************************************)
HostURIs    == {"", "tcp://base:2376"}
HostNames   == {""}
Inline(b)   == {"", b}
FileChoices(f) == {"", f, "/f/empty", "/f/missing"}
CertPaths   == {"", "/certs", "/part", "/blank", "/locked", "/gone", "/junk"}
StoragePaths == {"", "/store"}
HostOverrides == {"", "tcp://res:2376", "%zz"}
HostNameOverrides == {"", "m1"}

BaseConfigs ==
    [HostURI : HostURIs, HostName : HostNames,
     CaMaterial : Inline("CA"), CertMaterial : Inline("CERT"), KeyMaterial : Inline("KEY"),
     CaFile : FileChoices("/f/ca"), CertFile : FileChoices("/f/cert"),
     KeyFile : FileChoices("/f/key"),
     CertPath : CertPaths, StoragePath : StoragePaths, Ping : BOOLEAN]

\* The connection fields of a resource: both declared (container), host
\* alone (image, volume), none (network).
ResourceConns ==
    [host : HostOverrides, hostname : HostNameOverrides]
        \cup [host : HostOverrides, machine_name : {""}] \cup {NetworkConn}

NotCalled == [r |-> ZeroConfig, deferred |-> FALSE, err |-> "not called"]

\* No container is managed in the resolver specification.
NoContainers ==
    /\ creationTime = 0
    /\ now = 1
    /\ d = [n \in Containers |-> [id |-> "", must_run |-> TRUE,
                                  destroy_grace_seconds |-> 0, ip_address |-> ""]]
    /\ docker = [n \in Containers |-> NoContainer]
    /\ op = [n \in Containers |-> NewOp("none")]

ResolverInit ==
    /\ providerConfig \in BaseConfigs
    /\ heap = Memory(providerConfig)
    /\ rdata \in ResourceConns
    /\ resolved = NotCalled
    /\ clientKind = "none"
    /\ NoContainers
    /\ NoKinds

\* A handler's call providerConfig.GetResolvedConfig(d) has come to s: the
\* caller holds what it returned, and the base is what the memory holds
\* at its address.
Resolution(s) ==
    /\ resolved' = Returned(s)
    /\ heap' = Kept(s)
    /\ providerConfig' = Value(Kept(s), BaseAddr)

Resolve ==
    /\ resolved = NotCalled
    /\ Resolution(GetResolvedConfigAt(heap, BaseAddr, rdata))
    /\ UNCHANGED <<rdata, clientKind, containerVars, kindVars>>

\* clientKind is the constructor that opened the client, or "error".
Connect ==
    /\ resolved.err = ""
    /\ clientKind = "none"
    /\ \E pong \in BOOLEAN :
         LET nc == NewClient(resolved.r, pong)
         IN  clientKind' = IF nc.err = "" THEN nc.kind ELSE "error"
    /\ UNCHANGED <<providerConfig, heap, rdata, resolved, containerVars, kindVars>>

ResolverNext == Resolve \/ Connect

ResolverSpec == ResolverInit /\ [][ResolverNext]_vars

(***************************************************************************)
(* Provider process: one base configuration, the container resources of    *)
(* Containers, the host invoking operations on them and the daemon acting  *)
(* on its own.                                                             *)
(***************************************************************************)
Configured   == [ZeroConfig EXCEPT !.HostURI = "tcp://base:2376",
                                   !.CertPath = "/certs", !.Ping = TRUE]
Unconfigured == [Configured EXCEPT !.HostURI = ""]
Broken       == [Configured EXCEPT !.CertPath = "/locked"]
Unparsable   == [Configured EXCEPT !.HostURI = "%zz"]

ProcessConfigs == {Configured, Unconfigured, Broken, Unparsable}

Init ==
    /\ providerConfig \in ProcessConfigs
    /\ heap = Memory(providerConfig)
    /\ rdata = ContainerConn
    /\ resolved = NotCalled
    /\ clientKind = "none"
    /\ creationTime = 0
    /\ now = 1
    /\ \E managed \in SUBSET Containers,
          mustRun \in [Containers -> BOOLEAN],
          grace \in [Containers -> GraceSeconds] :
         /\ d = [n \in Containers |->
                   [id |-> IF n \in managed THEN ContainerID(n) ELSE "",
                    must_run |-> mustRun[n],
                    destroy_grace_seconds |-> grace[n],
                    ip_address |-> ""]]
         /\ docker = [n \in Containers |->
                        IF n \in managed
                        THEN [NoContainer EXCEPT !.status = "running"]
                        ELSE NoContainer]
    /\ op = [n \in Containers |-> NewOp("none")]
    /\ NoKinds

ContainerStep(n) ==
    \/ Create(n)
    \/ ListImages(n)
    \/ CreateContainer(n)
    \/ ConnectNetwork(n)
    \/ UploadToContainer(n)
    \/ StartContainer(n)
    \/ CreateRead(n)
    \/ Read(n)
    \/ ListContainers(n)
    \/ InspectContainer(n)
    \/ Sleep(n)
    \/ ReadDelete(n)
    \/ Delete(n)
    \/ StopContainer(n)
    \/ RemoveContainer(n)
    \/ Exists(n)
    \/ Update(n)

DaemonStep(n) == DaemonRun(n) \/ DaemonExit(n) \/ DaemonVanish(n)

Next ==
    \/ \E n \in Containers : ContainerStep(n) \/ DaemonStep(n)
    \/ PeerCreate

Spec == Init /\ [][Next]_vars

(***************************************************************************)
(* Lookup specification: the part of Create that ends with the start call, *)
(* with the image field drawn from every kind of reference.                *)
(***************************************************************************)
LookupCreate(n) == CreateWith(n, ImageRefs)

LookupNext ==
    \E n \in Containers :
        \/ LookupCreate(n)
        \/ ListImages(n)
        \/ CreateContainer(n)
        \/ ConnectNetwork(n)
        \/ UploadToContainer(n)
        \/ StartContainer(n)
        \/ DaemonVanish(n)

LookupSpec == Init /\ [][LookupNext]_vars

(***************************************************************************)
(* Override specification: a few base configurations, and a resource that  *)
(* sets any of the connection fields its schema declares.  rdata.hostname  *)
(* is what d.Get("hostname") returns; machine_name, cert_path and the      *)
(* three materials are the other fields the resource schemas declare.      *)
(***************************************************************************)
InlineTLS == [Configured EXCEPT !.CertPath = "", !.CaMaterial = "CA",
                                !.CertMaterial = "CERT", !.KeyMaterial = "KEY"]

OverrideBases == {Configured, Unconfigured, InlineTLS}

ResourceOverrides ==
    [host : HostOverrides, hostname : HostNameOverrides,
     machine_name : {"", "m1"}, cert_path : {"", "/part"},
     ca_material : {"", "RCA"}, cert_material : {"", "RCERT"},
     key_material : {"", "RKEY"}]

OverrideInit ==
    /\ providerConfig \in OverrideBases
    /\ heap = Memory(providerConfig)
    /\ rdata \in ResourceOverrides
    /\ resolved = NotCalled
    /\ clientKind = "none"
    /\ NoContainers
    /\ NoKinds

\* A later operation, of this or another resource, resolves again.
ResolveAgain ==
    /\ resolved # NotCalled
    /\ \E rd \in ResourceOverrides :
         /\ rdata' = rd
         /\ Resolution(GetResolvedConfigAt(heap, BaseAddr, rd))
    /\ clientKind' = "none"
    /\ UNCHANGED <<containerVars, kindVars>>

OverrideNext == Resolve \/ Connect \/ ResolveAgain

OverrideSpec == OverrideInit /\ [][OverrideNext]_vars

(***************************************************************************)
(* Image specification: one image resource in every configuration of the   *)
(* bounded sets below, and the daemon's images.  The schema makes the four *)
(* acquisition fields conflict with each other; a few combinations are     *)
(* kept, since the handler itself chooses among them.                      *)
(* The resource is either new or tracked in the state a previous run left: *)
(* its id set and its image in the daemon.                                 *)
(***************************************************************************)
Registries == {"", "reg.io"}
Tags == {"", "v1"}
Acquisitions ==
    {{}, {"pull"}, {"load"}, {"build_local"}, {"build_remote"},
     {"pull", "load"}, {"pull", "build_local"}, {"load", "build_remote"}}
LoadPaths == {"/img/app.tar", "/img/missing.tar"}

KindsResolver(conn) ==
    /\ providerConfig \in ProcessConfigs
    /\ heap = Memory(providerConfig)
    /\ rdata = conn
    /\ resolved = NotCalled
    /\ clientKind = "none"

ImageInit ==
    /\ KindsResolver(ImageConn)
    /\ NoContainers
    /\ \E registry \in Registries, tag \in Tags, acq \in Acquisitions,
          loadPath \in LoadPaths, push \in BOOLEAN, keep \in BOOLEAN :
         \E managed \in BOOLEAN :
           LET img == NewImage(registry, tag, acq, loadPath, push, keep)
               id  == CreateImageName(img)
           IN  IF managed
               THEN /\ image = [img EXCEPT !.id = id,
                                           !.imageID = "sha256:" \o Canon(id)]
                    /\ daemon = [EmptyDaemon EXCEPT !.images = {Canon(id)}]
               ELSE /\ image = img
                    /\ daemon = EmptyDaemon
    /\ network = NewNetwork(FALSE, "")
    /\ volume = NewVolume("")
    /\ last = NoLast

ImageNext ==
    \/ ImageCreate
    \/ ImageRead
    \/ ImageUpdate
    \/ ImageDelete
    \/ ImageExists
    \/ ImageVanish

ImageSpec == ImageInit /\ [][ImageNext]_vars

(***************************************************************************)
(* Network and volume specification: each resource new, or tracked in the  *)
(* state a previous run left.                                              *)
(***************************************************************************)
NetworkOptions == {"", "mtu=1400"}
VolumeNames == {"", "data"}

NetVolInit ==
    /\ KindsResolver(VolumeConn)
    /\ NoContainers
    /\ image = NoImage
    /\ \E internal \in BOOLEAN, options \in NetworkOptions, name \in VolumeNames,
          managedNet \in BOOLEAN, managedVol \in BOOLEAN :
         LET net  == NewNetwork(internal, options)
             vol  == NewVolume(name)
             vname == IF name # "" THEN name ELSE GeneratedVolumeName
             mount == "/var/lib/docker/volumes/" \o vname
         IN  /\ network = IF managedNet THEN [net EXCEPT !.id = NetworkID] ELSE net
             /\ volume = IF managedVol
                         THEN [vol EXCEPT !.id = vname, !.name = vname,
                                          !.mountpoint = mount]
                         ELSE vol
             /\ daemon = [EmptyDaemon EXCEPT
                            !.network = IF managedNet
                                        THEN [present |-> TRUE, internal |-> internal,
                                              options |-> options]
                                        ELSE NoNetwork,
                            !.volume = IF managedVol
                                       THEN [present |-> TRUE, name |-> vname,
                                             mountpoint |-> mount]
                                       ELSE NoVolume]
    /\ last = NoLast

NetVolNext ==
    \/ NetworkCreate
    \/ NetworkRead
    \/ NetworkDelete
    \/ NetworkExists
    \/ NetworkVanish
    \/ VolumeCreate
    \/ VolumeRead
    \/ VolumeDelete
    \/ VolumeExists
    \/ VolumeVanish

NetVolSpec == NetVolInit /\ [][NetVolNext]_vars

\* Number of the three materials that are non-empty in r.
MaterialCount(r) ==
    (IF r.CaMaterial # "" THEN 1 ELSE 0)
  + (IF r.CertMaterial # "" THEN 1 ELSE 0)
  + (IF r.KeyMaterial # "" THEN 1 ELSE 0)

IsTLSError(err) ==
    err \in {"missing CA certificate", "missing client certificate",
             "missing key certificate"}

\* C1: whenever resolution gets as far as resolving the three materials,
\* it succeeds if zero or all three are non-empty and fails with an
\* incomplete-TLS error if exactly one or two are.
C1_TLSCompleteness ==
    resolved # NotCalled =>
        LET m == ResolvedMaterials(providerConfig, rdata)
        IN  m.err = "" =>
              /\ MaterialCount(m.r) \in {0, 3} => resolved.err = ""
              /\ MaterialCount(m.r) \in {1, 2} => IsTLSError(resolved.err)

(***************************************************************************)
(* Container claims, over the operation records of Spec.  An operation is  *)
(* over when its pc is back to "idle"; its record stays until the next     *)
(* operation on the same resource begins.                                  *)
(***************************************************************************)
Over(n, kind) == op[n].kind = kind /\ op[n].pc = "idle"

\* The operation got as far as the poll loop and every InspectContainer
\* call of it was answered.
Polled(n) == op[n].inspects >= 1 /\ op[n].result # "inspect"

\* C2: a Create with must_run whose container was never seen running nor
\* finished after the instant this Create recorded makes exactly 30
\* inspections, fails with the not-running error and issues exactly one
\* RemoveContainer call; stated for the runs in which the daemon answered
\* every inspection and the ping of the clean-up.
C2_TimeoutRemovesOnce ==
    \A n \in Containers :
        (Over(n, "create") /\ Polled(n) /\ d[n].must_run
            /\ ~op[n].lastRunning /\ ~op[n].finAfterOwn
            /\ op[n].deleteResult # "client")
        => /\ op[n].inspects = CreateLoops
           /\ op[n].result = "notRunning"
           /\ op[n].removes = 1

\* C3: the poll loop of Create makes at most 30 inspections; it goes on
\* only past observations that are not running while must_run is set; and
\* a Create whose inspection k+1 is the first to see the container running
\* succeeds after exactly k sleeps without calling Delete.
C3_PollLoop ==
    \A n \in Containers :
        op[n].kind = "create" =>
            /\ op[n].inspects <= CreateLoops
            /\ op[n].sleeps <= op[n].inspects
            /\ op[n].pc \in {"inspect", "sleep"} =>
                  /\ ~op[n].lastRunning
                  /\ op[n].i = op[n].loops - op[n].sleeps
                  /\ op[n].i >= 1
                  /\ op[n].inspects =
                        op[n].sleeps + (IF op[n].pc = "sleep" THEN 1 ELSE 0)
            /\ (op[n].inspects >= 1 /\ ~d[n].must_run) =>
                  /\ op[n].pc = "idle"
                  /\ op[n].inspects = 1
                  /\ op[n].sleeps = 0
                  /\ op[n].deleteCalls = 0
            /\ op[n].lastRunning =>
                  /\ op[n].pc = "idle"
                  /\ op[n].result = "ok"
                  /\ op[n].sleeps = op[n].inspects - 1
                  /\ op[n].deleteCalls = 0
                  /\ d[n].id = ContainerID(n)

\* A Create that saw its container running on the fourth inspection.
C3_Witness ==
    \E n \in Containers :
        /\ Over(n, "create")
        /\ op[n].lastRunning
        /\ op[n].inspects = 4
        /\ op[n].sleeps = 3
        /\ op[n].result = "ok"

\* C4: a Read invoked as a refresh inspects the container once and never
\* sleeps, whatever ran before it in the process.
C4_RefreshPollsOnce ==
    \A n \in Containers :
        op[n].kind = "read" =>
            /\ op[n].sleeps = 0
            /\ op[n].inspects <= 1
            /\ op[n].pc # "sleep"

\* C5: a refresh Read that finds the container not running while must_run
\* is set inspects once, does not sleep, calls Delete at once and returns
\* what Delete returns: no error and a cleared id unless the daemon
\* refuses the ping, the stop or the remove.
C5_RefreshTearsDown ==
    \A n \in Containers :
        (Over(n, "read") /\ Polled(n) /\ d[n].must_run /\ op[n].first # "running")
        => /\ op[n].inspects = 1
           /\ op[n].sleeps = 0
           /\ op[n].deleteCalls = 1
           /\ op[n].result \in {"ok", "client", "stop", "remove"}
           /\ op[n].result = "ok" => d[n].id = ""

\* C6: a Create with must_run whose first inspection reports the container
\* not running with a finish time after the instant this Create recorded
\* calls Delete, polls no further and returns the exited error with the
\* daemon's error text.
C6_ImmediateExit ==
    \A n \in Containers :
        (Over(n, "create") /\ d[n].must_run
            /\ op[n].first \in {"finishedAfterOwn", "finishedAfterMarker"})
        => /\ op[n].result = "exited"
           /\ op[n].inspects = 1
           /\ op[n].deleteCalls = 1
           /\ op[n].detail = "exec failed"

\* C7: after a Create that returned a convergence failure the container is
\* gone from the daemon and the resource has no id, whatever the grace
\* period; stated for the runs in which the daemon refused neither the
\* ping of the clean-up nor a RemoveContainer call.
C7_NoOrphanAfterFailedCreate ==
    \A n \in Containers :
        (Over(n, "create") /\ op[n].result \in {"exited", "notRunning"}
            /\ op[n].deleteResult \notin {"remove", "client"})
        => /\ docker[n].status = "absent"
           /\ d[n].id = ""

\* C8: a Delete to which the client answered not-found returns success,
\* for the image, network and volume resources and for containers.
C8_DeleteOfAbsentSucceeds ==
    /\ (last.verb = "delete" /\ last.notFound) => last.result = "ok"
    /\ \A n \in Containers :
          (Over(n, "delete") /\ op[n].notFound) => op[n].result = "ok"

\* C9: an image Read that did not return a resolution error inspects the
\* image by its id; when the inspect reports not-found it clears the id
\* and returns no error; when the inspect fails otherwise it returns that
\* error; when the inspect succeeds it keeps the id and fills the observed
\* fields.
C9_ImageRead ==
    (last.kind = "image" /\ last.verb = "read" /\ last.result # "resolve") =>
        /\ Len(last.calls) = 1
        /\ last.notFound => (last.result = "ok" /\ image.id = "")
        /\ (~last.notFound /\ last.result # "ok") => last.result = "error"
        /\ last.result = "ok" => (image.id # "" /\ image.imageID # "")

\* C10: no operation of any resource kind reports a deferred connection
\* resolution to the host as an error.
C10_DeferredIsNotFatal ==
    /\ last.deferred => last.result = "ok"
    /\ \A n \in Containers :
          (op[n].pc = "idle" /\ op[n].deferred) => op[n].result = "ok"

\* C11: image Exists returns true without error exactly when the inspect by
\* id succeeds; false without error when the inspect reports not-found or
\* the resolution is deferred; and the error of any other inspect or
\* resolution failure.
C11_ImageExists ==
    (last.kind = "image" /\ last.verb = "exists") =>
        LET rc == GetResolvedConfig(providerConfig, ImageConn)
        IN  /\ (last.exists /\ last.result = "ok") <=> (last.answer = "ok")
            /\ last.exists => last.result = "ok"
            /\ (last.answer = "ErrNoSuchImage" \/ rc.deferred)
                  => (~last.exists /\ last.result = "ok")
            /\ last.answer = "error" => last.result = "error"
            /\ (rc.err # "" /\ ~rc.deferred) => last.result = "resolve"
            /\ (rc.err # "") <=> (last.calls = <<>>)

\* The resource-level value of a connection field: empty when the field
\* is unset or the resource has no such field.
Field(rd, key) == IF Declares(rd, key) THEN rd[key] ELSE ""

\* The merged endpoint or the merged host name is missing.
MergedIncomplete ==
    \/ (Field(rdata, "host") = "" /\ providerConfig.HostURI = "")
    \/ (Field(rdata, "hostname") = "" /\ providerConfig.HostName = "")

\* C12: GetResolvedConfig returns deferred=true exactly when the merged
\* endpoint or the merged host name is missing; every other failure is
\* returned with deferred=false.
C12_DeferredOnlyWhenIncomplete ==
    resolved # NotCalled =>
        /\ resolved.deferred <=> MergedIncomplete
        /\ resolved.deferred => resolved.err # ""

\* The resource-level value when it is set, otherwise the base value.
Merged(resourceValue, baseValue) ==
    IF resourceValue # "" THEN resourceValue ELSE baseValue

\* C13: a resolved configuration carries, for each connection field the
\* resource declares, the resource-level value when that is non-empty and
\* the base value otherwise; a resolution in which neither gives the
\* endpoint or the host name fails.
C13_MergePrecedence ==
    resolved # NotCalled =>
        /\ resolved.err = "" =>
              /\ resolved.r.HostURI = Merged(rdata.host, providerConfig.HostURI)
              /\ resolved.r.HostName =
                    Merged(rdata.machine_name, providerConfig.HostName)
              /\ rdata.ca_material # "" => resolved.r.CaMaterial = rdata.ca_material
              /\ rdata.cert_material # "" =>
                    resolved.r.CertMaterial = rdata.cert_material
              /\ rdata.key_material # "" => resolved.r.KeyMaterial = rdata.key_material
              /\ (rdata.cert_path # "" /\ rdata.ca_material = ""
                     /\ providerConfig.CaMaterial = "" /\ providerConfig.CaFile = "")
                    => resolved.r.CaMaterial =
                          ReadFile(Join(rdata.cert_path, "ca.pem")).bytes
        /\ (Merged(rdata.host, providerConfig.HostURI) = ""
               \/ Merged(rdata.machine_name, providerConfig.HostName) = "")
              => resolved.err # ""

\* The conventional certificate directory of the configuration in hand.
ConventionalDir ==
    CertDir(providerConfig, Merged(Field(rdata, "hostname"), providerConfig.HostName))

\* The conventional file is the source of this material and does not exist.
ConventionalFileMissing(inline, file, pem) ==
    /\ inline = "" /\ file = ""
    /\ Stat(Join(ConventionalDir, pem)) = "ENOENT"

\* C14: a stat failure on the conventional certificate directory is a
\* hard error; a conventional ca.pem, cert.pem or key.pem that does not
\* exist is skipped without error; and a configuration with no TLS
\* material, no TLS file and no certificate directory resolves.
C14_StatAndMissingFiles ==
    (resolved # NotCalled /\ ~MergedIncomplete) =>
        /\ (NeedsCertDir(providerConfig) /\ ConventionalDir # ""
               /\ Stat(ConventionalDir) # "ok")
              => (resolved.err # "" /\ ~resolved.deferred)
        /\ (ConventionalDir # "" /\ Stat(ConventionalDir) = "ok") =>
              /\ ConventionalFileMissing(providerConfig.CaMaterial,
                                         providerConfig.CaFile, "ca.pem")
                    => resolved.err # "error reading ca file"
              /\ ConventionalFileMissing(providerConfig.CertMaterial,
                                         providerConfig.CertFile, "cert.pem")
                    => resolved.err # "error reading cert file"
              /\ ConventionalFileMissing(providerConfig.KeyMaterial,
                                         providerConfig.KeyFile, "key.pem")
                    => resolved.err # "error reading key file"
        /\ (ConventionalDir = ""
               /\ providerConfig.CaMaterial = "" /\ providerConfig.CaFile = ""
               /\ providerConfig.CertMaterial = "" /\ providerConfig.CertFile = ""
               /\ providerConfig.KeyMaterial = "" /\ providerConfig.KeyFile = "")
              => resolved.err = ""

\* The call of a step, if it made one, returned a new object: an address
\* that was not in use when the call began, so neither the base nor the
\* object an earlier call returned.  In OverrideSpec a step that leaves no
\* client open is a call of GetResolvedConfig.
ReturnsNewObject ==
    (clientKind' = "none" /\ heap'.r # 0) => heap'.r \notin DOMAIN heap.obj

\* A []byte field of the object returned is empty, or the base's slice of
\* the same field (inline material is shared, not copied), or an array
\* that was not in use when the call began.
ReturnedSlices ==
    (clientKind' = "none" /\ heap'.r # 0) =>
        \A f \in {"CaMaterial", "CertMaterial", "KeyMaterial"} :
            \/ heap'.obj[heap'.r][f] = 0
            \/ heap'.obj[heap'.r][f] = heap.obj[BaseAddr][f]
            \/ heap'.obj[heap'.r][f] \notin DOMAIN heap.arr

\* The object at the base's address and the bytes its slices point to are
\* the same after the step as before it.
BaseObjectKept ==
    /\ heap'.obj[BaseAddr] = heap.obj[BaseAddr]
    /\ \A f \in {"CaMaterial", "CertMaterial", "KeyMaterial"} :
          heap.obj[BaseAddr][f] # 0 =>
              heap'.arr[heap.obj[BaseAddr][f]] = heap.arr[heap.obj[BaseAddr][f]]

\* What the last call returned is the overlay of the resource in hand on
\* the value of the base, whatever earlier calls left in memory.
ResolvedIsOverlay ==
    resolved # NotCalled => resolved = GetResolvedConfig(providerConfig, rdata)

\* C15: no call of GetResolvedConfig, and no use of what it returned,
\* changes the base configuration: after every step each field of the base,
\* the bytes of its materials included, has the value it had before; each
\* call that returns a configuration returns a newly allocated one, and its
\* value is the overlay of the resource in hand on the unchanged base.
C15_BaseUnchanged ==
    /\ [][/\ providerConfig' = providerConfig
           /\ BaseObjectKept
           /\ ReturnsNewObject
           /\ ReturnedSlices]_vars
    /\ []ResolvedIsOverlay

\* A second call has returned while the result of the first was held: the
\* new object overlays the resource's endpoint on a base that has another,
\* shares the base's inline CA bytes, and a client has been opened on it.
C15_Witness ==
    /\ resolved # NotCalled /\ resolved.err = ""
    /\ heap.r = 3
    /\ rdata.host # ""
    /\ providerConfig.HostURI # ""
    /\ resolved.r.HostURI = rdata.host
    /\ heap.obj[BaseAddr].CaMaterial # 0
    /\ heap.obj[heap.r].CaMaterial = heap.obj[BaseAddr].CaMaterial
    /\ resolved.r = Value(heap, heap.r)
    /\ providerConfig = Value(heap, BaseAddr)
    /\ clientKind # "none"

\* C16: a Create of one container behaves as it does when it runs alone,
\* whatever Create of another container interleaves with it: once an
\* inspection has reported the container not running with a finish time
\* after the instant this Create recorded, a Create with must_run polls no
\* further, tears the container down and fails with the exited error.
C16_NoInterference ==
    \A n \in Containers :
        (op[n].kind = "create" /\ d[n].must_run /\ op[n].finAfterOwn) =>
            /\ op[n].pc \in {"delete", "stop", "remove", "idle"}
            /\ op[n].nested = "exited"
            /\ op[n].pc = "idle" => op[n].result = "exited"

AcquisitionCalls == {"PullImage", "LoadImage", "BuildImage"}

\* The acquisition the fields of the image resource select.
ExpectedAcquisition ==
    IF image.pull THEN "PullImage"
    ELSE IF image.load_path # "" THEN "LoadImage"
    ELSE IF image.build_local_path # "" \/ image.build_remote_path # ""
    THEN "BuildImage"
    ELSE "none"

\* The acquisition calls among the calls of the last operation.
AcquisitionsMade ==
    SelectSeq(last.calls, LAMBDA c : c.call \in AcquisitionCalls)

\* C17: image Create issues at most one acquisition call, the one chosen
\* by the precedence pull, load, build, none (none either when the archive
\* of load_path cannot be opened); when the acquisition fails Create
\* returns that error, issues no push and assigns no id.
C17_OneAcquisition ==
    (last.kind = "image" /\ last.verb = "create" /\ last.pc = "idle"
        /\ last.result \notin {"resolve", "client"}) =>
        /\ Len(AcquisitionsMade) <= 1
        /\ \A k \in 1..Len(AcquisitionsMade) :
              AcquisitionsMade[k].call = ExpectedAcquisition
        /\ Len(AcquisitionsMade) = 0 <=>
              (ExpectedAcquisition = "none" \/ last.result = "open")
        /\ last.result \in {"pull", "load", "build", "open"} =>
              /\ \A k \in 1..Len(last.calls) : last.calls[k].call # "PushImage"
              /\ Len(last.calls) = Len(AcquisitionsMade)
              /\ image.id = ""

\* C18: an image Delete that got its connection is a no-op when keep is
\* set (success, no client call), and otherwise issues exactly one
\* force-remove, for the image the resource tracks.
C18_KeepIsNoOp ==
    (last.kind = "image" /\ last.verb = "delete" /\ last.result # "resolve") =>
        /\ image.keep => (last.result = "ok" /\ last.calls = <<>>)
        /\ ~image.keep =>
              /\ Len(last.calls) = 1
              /\ last.calls[1].call = "RemoveImageExtended"
              /\ ValidRef(last.calls[1].arg)
              /\ Canon(last.calls[1].arg) = Canon(image.id)

\* C19: an image Update that got its connection issues one push when the
\* push field changed and is now true, and otherwise makes no client call
\* and returns success.
C19_PushOnChange ==
    (last.kind = "image" /\ last.verb = "update" /\ last.result # "resolve") =>
        /\ (last.changed /\ image.push) =>
              last.calls = <<Call("PushImage", PushName(image))>>
        /\ ~(last.changed /\ image.push) =>
              (last.calls = <<>> /\ last.result = "ok")

\* C20: a Create in which a ConnectNetwork call failed returns the connect
\* error, has issued no start, stop or remove call, and leaves the id set
\* to the created container's, which has not been started.
C20_ConnectFailureAborts ==
    \A n \in Containers :
        (Over(n, "create") /\ op[n].result = "connect") =>
            /\ op[n].starts = 0
            /\ op[n].inspects = 0
            /\ op[n].deleteCalls = 0 /\ op[n].stops = 0 /\ op[n].removes = 0
            /\ op[n].instant = 0
            /\ d[n].id = ContainerID(n)
            /\ docker[n].status \in {"created", "absent"}

\* A Create that failed on a network while the created container is still
\* in the daemon.
C20_Witness ==
    \E n \in Containers :
        /\ Over(n, "create") /\ op[n].result = "connect"
        /\ docker[n].status = "created"
        /\ d[n].id = ContainerID(n)

\* C21: a container Delete that got its client issues, with a positive
\* grace period, its stop call before any remove call; when the stop fails
\* it returns the error, issues no remove and keeps the id; otherwise, and
\* always with a grace period of zero, it issues exactly one remove call
\* with Force and RemoveVolumes set and clears the id only once that call
\* has succeeded.  A Delete that did not get its client issues neither
\* call and keeps the id.
C21_StopThenRemove ==
    \A n \in Containers :
        op[n].deleteCalls >= 1 =>
            LET grace == d[n].destroy_grace_seconds
                stopsDue == IF grace > 0 THEN 1 ELSE 0
            IN  /\ op[n].deleteCalls = 1
                /\ op[n].pc \in {"stop", "remove", "idle"}
                /\ op[n].pc = "stop" =>
                      (grace > 0 /\ op[n].stops = 0 /\ op[n].removes = 0
                         /\ d[n].id # "")
                /\ op[n].pc = "remove" =>
                      (op[n].stops = stopsDue /\ op[n].removes = 0 /\ d[n].id # "")
                /\ op[n].pc = "idle" =>
                      /\ op[n].deleteResult \in
                            {"resolve", "client", "stop", "remove", "ok"}
                      /\ op[n].deleteResult \in {"resolve", "client"} =>
                            (op[n].stops = 0 /\ op[n].removes = 0 /\ d[n].id # "")
                      /\ op[n].deleteResult = "stop" =>
                            (grace > 0 /\ op[n].stops = 1 /\ op[n].removes = 0
                               /\ d[n].id # "")
                      /\ op[n].deleteResult \in {"remove", "ok"} =>
                            /\ op[n].stops = stopsDue
                            /\ op[n].removes = 1
                            /\ op[n].removeOpts = RemoveOpts
                      /\ op[n].deleteResult = "remove" => d[n].id # ""
                      /\ op[n].deleteResult = "ok" => d[n].id = ""

\* A Delete with a grace period that stopped and then removed a container.
C21_Witness ==
    \E n \in Containers :
        /\ Over(n, "delete")
        /\ d[n].destroy_grace_seconds > 0
        /\ op[n].stops = 1 /\ op[n].removes = 1
        /\ op[n].result = "ok"
        /\ d[n].id = ""

\* C22: a container Read whose scan of the list of all containers misses
\* the tracked ID clears the id and returns success, and an Exists whose
\* scan misses returns false without error; neither issues an inspect, a
\* Delete or a sleep; and an Exists whose scan hits returns true at once,
\* without inspecting or sleeping.
C22_ScanMiss ==
    \A n \in Containers :
        /\ (op[n].kind \in {"read", "create"} /\ op[n].listed = "miss") =>
              /\ op[n].pc = "idle"
              /\ op[n].result = "ok"
              /\ d[n].id = ""
              /\ op[n].inspects = 0 /\ op[n].sleeps = 0
              /\ op[n].deleteCalls = 0 /\ op[n].stops = 0 /\ op[n].removes = 0
        /\ op[n].kind = "exists" =>
              /\ op[n].pc \in {"listContainers", "idle"}
              /\ op[n].listed # "none" => op[n].pc = "idle"
              /\ op[n].inspects = 0 /\ op[n].sleeps = 0
              /\ op[n].deleteCalls = 0 /\ op[n].stops = 0 /\ op[n].removes = 0
              /\ op[n].listed = "miss" => (~op[n].exists /\ op[n].result = "ok")
              /\ op[n].listed = "hit" => (op[n].exists /\ op[n].result = "ok")
              /\ d[n].id # ""

\* A refresh Read that found its container gone from the list.
C22_Witness ==
    \E n \in Containers :
        /\ Over(n, "read")
        /\ op[n].listed = "miss"
        /\ d[n].id = ""
        /\ docker[n].status = "absent"

\* C23: a network Create that returned neither a resolution error nor an
\* error of the daemon succeeded, and the internal flag and the options in
\* the resource data are then those sent in the create request, whether or
\* not the create response carried them back.
C23_RequestValuesKept ==
    (last.kind = "network" /\ last.verb = "create"
        /\ last.result \notin {"resolve", "client", "create"}) =>
        /\ last.result = "ok"
        /\ network.internal = last.sent.internal
        /\ network.options = last.sent.options

\* The id of the resource the last operation was on.
LastID == IF last.kind = "network" THEN network.id ELSE volume.id

\* C24: for networks and volumes, a Read or an Exists whose connection
\* resolved inspects the resource; a Read to which the client answers
\* not-found clears the id and returns success, an Exists to which it
\* answers not-found returns false without error, and any other inspect
\* error is returned as an error with the id left as it was.
C24_NotFoundIsClean ==
    (last.kind \in {"network", "volume"} /\ last.verb \in {"read", "exists"}
        /\ ~last.deferred /\ last.result \notin {"resolve", "client"}) =>
        /\ Len(last.calls) = 1
        /\ last.answer \in {"ok", "error", "NoSuchNetwork", "ErrNoSuchVolume"}
        /\ last.answer \in {"NoSuchNetwork", "ErrNoSuchVolume"} =>
              /\ last.result = "ok"
              /\ last.verb = "read" => LastID = ""
              /\ last.verb = "exists" => (~last.exists /\ LastID = last.calls[1].arg)
        /\ last.answer = "error" =>
              /\ last.result = "inspect"
              /\ ~last.exists
              /\ LastID = last.calls[1].arg
        /\ last.answer = "ok" =>
              /\ last.result = "ok"
              /\ LastID = last.calls[1].arg
              /\ last.verb = "exists" => last.exists

\* k copies of the call name.
Repeat(name, k) == [j \in 1..k |-> name]

\* The calls of a Create with the declared networks and uploads, up to and
\* including the start call.
CreateOrder(nets, ups) ==
    <<"ListImages", "CreateContainer">>
        \o Repeat("ConnectNetwork", nets)
        \o Repeat("UploadToContainer", ups)
        \o <<"creationTime", "StartContainer">>

IsPrefix(s, t) == Len(s) <= Len(t) /\ SubSeq(t, 1, Len(s)) = s

\* C25: the calls a container Create issues come in the order list
\* images, one create-container, one connect per declared network, one
\* upload per declared file, the recording of the creation instant, one
\* start, and only then the inspect polls; a Create that stops early has
\* issued an initial part of that sequence, and one that returns success
\* has issued all of it.
C25_CreateOrder ==
    \A n \in Containers :
        op[n].kind = "create" =>
            LET order == CreateOrder(op[n].nets, op[n].uploads)
            IN  /\ IsPrefix(op[n].trace, order)
                /\ (op[n].inspects >= 1 \/ op[n].listed # "none") => op[n].trace = order
                /\ (op[n].pc = "idle" /\ op[n].result = "ok") => op[n].trace = order
                /\ op[n].trace = order =>
                      (op[n].starts = 1 /\ op[n].instant # 0)
                /\ op[n].trace # order =>
                      (op[n].starts = 0 /\ op[n].instant = 0)

\* A Create with a network and an upload that ran to a successful end.
C25_Witness ==
    \E n \in Containers :
        /\ Over(n, "create") /\ op[n].result = "ok"
        /\ op[n].nets >= 1 /\ op[n].uploads >= 1
        /\ op[n].inspects >= 1
        /\ Len(op[n].trace) = 4 + op[n].nets + op[n].uploads

\* C26: for every registry and tag, empty ones included, the id Create
\* assigns, the repository Create and Update push and the reference
\* Delete removes, as the handlers compose them from the fields of the
\* resource, all denote the image registry/name:tag: the id of a tracked
\* resource is the reference Create composes, the push names its
\* repository and the remove names the same image.
C26_SameReference ==
    /\ image.id # "" => image.id = CreateImageName(image)
    /\ PushName(image) = RepoName(image)
    /\ ValidRef(DeleteImageName(image))
    /\ Canon(DeleteImageName(image)) = Canon(CreateImageName(image))

\* The conventional directory as documented: the configured certificate
\* path, else machines/<host identity> under the configured storage path.
DocumentedDir ==
    LET hostName == Merged(Field(rdata, "hostname"), providerConfig.HostName)
    IN  IF providerConfig.CertPath # "" THEN providerConfig.CertPath
        ELSE IF providerConfig.StoragePath # ""
        THEN Join(Join(providerConfig.StoragePath, "machines"), hostName)
        ELSE ""

\* The material the documented order selects.
DocumentedMaterial(inline, file, pem) ==
    IF inline # "" THEN inline
    ELSE IF file # "" THEN ReadFile(file).bytes
    ELSE IF DocumentedDir # "" THEN ReadFile(Join(DocumentedDir, pem)).bytes
    ELSE ""

\* C27: in a resolved configuration each of the CA, the certificate and
\* the key is the inline material when that is non-empty, else the content
\* of the explicitly configured file, else the content of ca.pem, cert.pem
\* or key.pem in the conventional directory, which is the configured
\* certificate path or is derived from the configured storage path and the
\* resolved host identity.
C27_MaterialOrder ==
    (resolved # NotCalled /\ resolved.err = "") =>
        /\ resolved.r.CaMaterial =
              DocumentedMaterial(providerConfig.CaMaterial, providerConfig.CaFile,
                                 "ca.pem")
        /\ resolved.r.CertMaterial =
              DocumentedMaterial(providerConfig.CertMaterial, providerConfig.CertFile,
                                 "cert.pem")
        /\ resolved.r.KeyMaterial =
              DocumentedMaterial(providerConfig.KeyMaterial, providerConfig.KeyFile,
                                 "key.pem")

\* The index of local images: the first 12 characters of each ID, each
\* full ID and each repo tag.
IndexKeys ==
    {SubSeq(img.ID, 1, 12) : img \in LocalImages}
        \cup {img.ID : img \in LocalImages}
        \cup UNION {img.RepoTags : img \in LocalImages}

\* C28: a container Create that was given the list of images uses the
\* image reference as given when it is a key of the index, uses the
\* reference with :latest appended when only that is a key, and otherwise
\* fails with the image-not-found error without issuing a create-container
\* call.
C28_ImageLookup ==
    \A n \in Containers :
        (op[n].kind = "create" /\ op[n].trace # <<>> /\ op[n].result # "list") =>
            LET ref == op[n].ref
                latest == ref \o ":latest"
            IN  /\ ref \in IndexKeys =>
                      (op[n].imageName = ref /\ op[n].result # "image")
                /\ (ref \notin IndexKeys /\ latest \in IndexKeys) =>
                      (op[n].imageName = latest /\ op[n].result # "image")
                /\ (ref \notin IndexKeys /\ latest \notin IndexKeys) =>
                      /\ op[n].pc = "idle"
                      /\ op[n].result = "image"
                      /\ op[n].trace = <<"ListImages">>
                      /\ op[n].imageName = ""
                      /\ d[n].id = ""
                /\ op[n].result = "image" =>
                      (ref \notin IndexKeys /\ latest \notin IndexKeys)

\* A Create of a bare name that went on with the :latest reference.
C28_Witness ==
    \E n \in Containers :
        /\ op[n].kind = "create"
        /\ op[n].ref = "nginx"
        /\ op[n].imageName = "nginx:latest"
        /\ d[n].id = ContainerID(n)

\* C29: a container Create or Read that returns success and leaves the id
\* set has inspected the container, and its last inspection saw the
\* container running unless must_run is false.
C29_SuccessMeansRunning ==
    \A n \in Containers :
        ((Over(n, "create") \/ Over(n, "read"))
            /\ op[n].result = "ok" /\ d[n].id # "")
        => /\ op[n].inspects >= 1
           /\ op[n].lastRunning \/ ~d[n].must_run

\* A refresh Read of a must_run container that found it running.
C29_Witness ==
    \E n \in Containers :
        /\ Over(n, "read") /\ op[n].result = "ok"
        /\ d[n].must_run /\ op[n].lastRunning
        /\ d[n].id = ContainerID(n)

\* C30: every resolved configuration NewClient is called on has all three
\* of CA, certificate and key, and gets a TLS client, or has none of them,
\* and gets a plain client; no plain connection is opened while any of the
\* three is non-empty.
C30_NoPlainWithMaterial ==
    clientKind # "none" =>
        /\ MaterialCount(resolved.r) \in {0, 3}
        /\ clientKind = "plain" => MaterialCount(resolved.r) = 0
        /\ clientKind = "tls" => MaterialCount(resolved.r) = 3

====
